---- MODULE Spec2Model ----
(***************************************************************************)
(* Evaluation orchestration pipeline of src/lib/doubao.ts:                 *)
(*   - createSmartFileBatches: the batch partitioner (SpecBatches);        *)
(*   - evaluateCode / evaluateCodeInBatches: the retrying model call and   *)
(*     the multi-batch orchestrator with its summary step (Spec, FairSpec).*)
(*   - extractJsonFromMarkdown: the reply extractor (SpecExtract);         *)
(*   - evaluateCode calls of concurrent runs and the module-level client   *)
(*     (SpecRuns);                                                         *)
(*   - processRelevantFiles: the request payload of a batch (SpecPayload); *)
(* and the relevance scorer of src/lib/llamaindex.ts (SpecScore).          *)
(* A file is a record [dir, name, size, relevance]: dir is the path up to  *)
(* the last "/" as a sequence of characters, name makes the path unique,   *)
(* size is JSON.stringify(file).length and relevance is the score scaled   *)
(* to 0..100.                                                              *)
(***************************************************************************)
EXTENDS Integers, Sequences, FiniteSets, TLC

VARIABLES
    \* ---- createSmartFileBatches ----
    files,          \* the input file list
    maxBatchSize,   \* the budget B
    fileGroups,     \* the open groups (FileGroup[])
    dirIndex,       \* position in the for-in loop over directoryMap
    bpc,            \* "idle" | "start" | "dirs" | "extract" | "done"
    outBatches,     \* the returned batches
    \* ---- evaluateCodeInBatches / evaluateCode ----
    env,            \* process.env: [dev, apiKey, useMock]
    relevantFiles,  \* params.relevantFiles
    batches,        \* const batches
    pc,             \* "start" | "batching" | "invoking" | "backoff" | "cooldown" | "done"
    callKind,       \* which evaluateCode call is running: "single" | "batch" | "summary"
    batchIdx,       \* the loop variable i, 1-based
    retryCount,     \* evaluateCode: retryCount
    currentUrlIndex,\* evaluateCode: currentUrlIndex (0-based as in the code)
    context,        \* BatchContext: [processedFiles, keyInsights, batchResults]
    lastResult,     \* let lastResult
    outcome,        \* "none" | "returned" | "threw"
    verdict,        \* the value returned to the caller
    invocations,    \* history: openai.chat.completions.create calls of the running evaluateCode call
    summaryCalls,   \* history: evaluateCode(summaryParams) calls issued
    lastBatchFinal, \* history: result of the final batch's own evaluateCode call
    callParams,     \* the params of the running evaluateCode call: [relevantFiles, projectDetail]
    \* ---- extractJsonFromMarkdown ----
    text,           \* the model's reply, a sequence of tokens
    parsedContent,  \* what doubao.ts's extractJsonFromMarkdown returned
    parsedVertex,   \* what the Vertex AI module's extractJsonFromMarkdown returned
    \* ---- getRelevantFilesForTask / calculateRelevanceScore ----
    scoreArgs,      \* the arguments of getRelevantFilesForTask
    scoreResult,    \* what it returned, or that it threw
    \* ---- concurrent evaluateCode calls ----
    openai,         \* module-level client: the index of its base URL
    runs,           \* per run: the locals of its evaluateCode call, the requests it sent, its result
    \* ---- one iteration of the batch loop, with the request payload ----
    batchFiles,     \* batch.files, handed to evaluateCode as relevantFiles
    payload,        \* processRelevantFiles: const processedFiles
    paypc,          \* "idle" | "start" | "trim" | "sent" | "pushed"
    pushedPaths     \* what the iteration appended to context.processedFiles

bvars == <<files, maxBatchSize, fileGroups, dirIndex, bpc, outBatches>>
ovars == <<env, relevantFiles, batches, pc, callKind, batchIdx, retryCount,
           currentUrlIndex, context, lastResult, outcome, verdict,
           invocations, summaryCalls, lastBatchFinal, callParams>>
xvars == <<text, parsedContent, parsedVertex>>
svars == <<scoreArgs, scoreResult>>
cvars == <<openai, runs>>
pvars == <<batchFiles, payload, paypc, pushedPaths>>
avars == <<xvars, svars, cvars, pvars>>
vars == <<bvars, ovars, avars>>

(* extractJsonFromMarkdown has not been called *)
ExtractorIdle ==
    /\ text = <<>>
    /\ parsedContent = [value |-> "unset", strategy |-> 0]
    /\ parsedVertex = [value |-> "unset", strategy |-> 0]

(* getRelevantFilesForTask has not been called *)
ScorerIdle ==
    /\ scoreArgs = "unset"
    /\ scoreResult = [status |-> "unset", files |-> <<>>]

(* the module is loaded (line 39) and no evaluateCode call is running *)
RunsIdle ==
    /\ openai = 0
    /\ runs = <<>>

(* no batch iteration is followed *)
PayloadIdle ==
    /\ batchFiles = <<>>
    /\ payload = <<>>
    /\ paypc = "idle"
    /\ pushedPaths = <<>>

-----------------------------------------------------------------------------
(* Bounds of the model *)

MaxFiles == 3           \* files given to the partitioner in SpecBatches
MaxRunFiles == 3        \* files of an evaluation run in Spec

\* directory paths: "s", "s/l", "t"
Dirs == { <<"s">>, <<"s", "/", "l">>, <<"t">> }
\* JSON.stringify(file).length of a file
FileSizes == { 30, 40, 60, 110 }
Relevances == { 20, 90 }
Budgets == { 100, 130 }

FileOf(d, n, s, r) == [dir |-> d, name |-> n, size |-> s, relevance |-> r]

-----------------------------------------------------------------------------
(* JSON.stringify(array).length: brackets, the files, the commas between *)

RECURSIVE SumSizes(_)
SumSizes(fs) == IF fs = <<>> THEN 0 ELSE Head(fs).size + SumSizes(Tail(fs))

JsonArraySize(fs) ==
    2 + SumSizes(fs) + (IF Len(fs) > 1 THEN Len(fs) - 1 ELSE 0)

(* file.path.split('/').slice(0, -1).join('/') *)
DirPath(file) == file.dir

(* String.prototype.startsWith on directory paths *)
StartsWith(s, prefix) ==
    /\ Len(prefix) <= Len(s)
    /\ SubSeq(s, 1, Len(prefix)) = prefix

(* the keys of directoryMap in for-in (insertion) order *)
RECURSIVE DirKeysFrom(_, _)
DirKeysFrom(fs, seen) ==
    IF fs = <<>> THEN <<>>
    ELSE IF DirPath(Head(fs)) \in seen THEN DirKeysFrom(Tail(fs), seen)
    ELSE <<DirPath(Head(fs))>> \o DirKeysFrom(Tail(fs), seen \cup {DirPath(Head(fs))})

DirKeys(fs) == DirKeysFrom(fs, {})

(* directoryMap[dirPath] *)
DirFiles(fs, d) == SelectSeq(fs, LAMBDA f : DirPath(f) = d)

(* group.directoryScore[dir] || 0 *)
ScoreOf(group, d) ==
    IF d \in DOMAIN group.directoryScore THEN group.directoryScore[d] ELSE 0

(* group.directoryScore[dir] = (group.directoryScore[dir] || 0) + n *)
BumpScore(score, d, n) ==
    [e \in (DOMAIN score) \cup {d} |->
        IF e = d THEN (IF d \in DOMAIN score THEN score[d] ELSE 0) + n
        ELSE score[e]]

EmptyGroup == [files |-> <<>>, totalSize |-> 0, directoryScore |-> <<>>]

NewGroup(fs, size, d) ==
    [files |-> fs, totalSize |-> size, directoryScore |-> BumpScore(<<>>, d, 1)]

(* mutant: only a directory of at most half the budget is kept whole *)
FitsWholeDirectoryHalf(dirSize, B) == 10 * dirSize <= 5 * B

(* dirSize <= maxBatchSize * 0.8, on integers *)
FitsWholeDirectory(dirSize, B) == 10 * dirSize <= 8 * B

-----------------------------------------------------------------------------
(* createSmartFileBatches, whole-directory placement (lines 437-483) *)

(* mutant: related directories of the group do not count *)
AffinityScoreOwnOnly(group, dirPath) == ScoreOf(group, dirPath)

(* the affinity of a group for dirPath: its own tally, plus 2 for every
   directory of the group that is a prefix of dirPath or prefixed by it *)
AffinityScore(group, dirPath) ==
    ScoreOf(group, dirPath)
    + 2 * Cardinality({ e \in DOMAIN group.directoryScore :
                          StartsWith(dirPath, e) \/ StartsWith(e, dirPath) })

(* the loop over fileGroups: <<bestGroupIndex, bestScore>> after groups i.. *)
RECURSIVE BestGroupFrom(_, _, _, _, _, _, _)
BestGroupFrom(groups, dirPath, dirSize, B, i, bestGroupIndex, bestScore) ==
    IF i > Len(groups) THEN <<bestGroupIndex, bestScore>>
    ELSE IF groups[i].totalSize + dirSize > B
         THEN BestGroupFrom(groups, dirPath, dirSize, B, i + 1, bestGroupIndex, bestScore)
    ELSE LET score == AffinityScore(groups[i], dirPath) IN
         IF \/ score > bestScore
            \/ (score = bestScore /\ groups[i].totalSize < groups[bestGroupIndex].totalSize)
         THEN BestGroupFrom(groups, dirPath, dirSize, B, i + 1, i, score)
         ELSE BestGroupFrom(groups, dirPath, dirSize, B, i + 1, bestGroupIndex, bestScore)

BestGroup(groups, dirPath, dirSize, B) ==
    BestGroupFrom(groups, dirPath, dirSize, B, 1, 1, -1)

(* add the files of a group-sized directory to the chosen group *)
JoinGroup(group, dirFiles, dirSize, dirPath) ==
    [files |-> group.files \o dirFiles,
     totalSize |-> group.totalSize + dirSize,
     directoryScore |-> BumpScore(group.directoryScore, dirPath, 1)]

PlaceDirectory(groups, dirPath, dirFiles, B) ==
    LET dirSize == JsonArraySize(dirFiles)
        best == BestGroup(groups, dirPath, dirSize, B)
        bestGroupIndex == best[1]
        bestScore == best[2]
    IN  IF bestScore < 0 \/ groups[bestGroupIndex].totalSize + dirSize > B
        THEN Append(groups, NewGroup(dirFiles, dirSize, dirPath))
        ELSE [groups EXCEPT ![bestGroupIndex] = JoinGroup(@, dirFiles, dirSize, dirPath)]

-----------------------------------------------------------------------------
(* createSmartFileBatches, file-by-file split (lines 484-516) *)

(* tempFiles.sort((a, b) => b.relevance - a.relevance): stable, descending *)
RECURSIVE InsertByRelevance(_, _)
InsertByRelevance(sorted, f) ==
    IF sorted = <<>> THEN <<f>>
    ELSE IF Head(sorted).relevance >= f.relevance
         THEN <<Head(sorted)>> \o InsertByRelevance(Tail(sorted), f)
         ELSE <<f>> \o sorted

RECURSIVE SortByRelevanceFrom(_, _)
SortByRelevanceFrom(fs, sorted) ==
    IF fs = <<>> THEN sorted
    ELSE SortByRelevanceFrom(Tail(fs), InsertByRelevance(sorted, Head(fs)))

(* mutant: the files are taken in input order *)
SortByRelevanceNever(fs) == fs

(* tempFiles.sort(...) on a copy of dirFiles *)
SortByRelevance(fs) == SortByRelevanceFrom(fs, <<>>)

(* index of the first group with room for fileSize, 0 when none has *)
RECURSIVE FirstFitFrom(_, _, _, _)
FirstFitFrom(groups, fileSize, B, i) ==
    IF i > Len(groups) THEN 0
    ELSE IF groups[i].totalSize + fileSize <= B THEN i
    ELSE FirstFitFrom(groups, fileSize, B, i + 1)

FirstFit(groups, fileSize, B) == FirstFitFrom(groups, fileSize, B, 1)

AddFile(group, file, dirPath) ==
    [files |-> Append(group.files, file),
     totalSize |-> group.totalSize + file.size,
     directoryScore |-> BumpScore(group.directoryScore, dirPath, 1)]

(* mutant: the loop over the groups lacks its break, so the file is pushed
   to every group with room *)
PlaceFileNoBreak(groups, file, dirPath, B) ==
    IF FirstFit(groups, file.size, B) = 0
    THEN Append(groups, NewGroup(<<file>>, file.size, dirPath))
    ELSE [k \in 1..Len(groups) |->
            IF groups[k].totalSize + file.size <= B
            THEN AddFile(groups[k], file, dirPath) ELSE groups[k]]

PlaceFile(groups, file, dirPath, B) ==
    LET g == FirstFit(groups, file.size, B)
    IN  IF g = 0
        THEN Append(groups, NewGroup(<<file>>, file.size, dirPath))
        ELSE [groups EXCEPT ![g] = AddFile(@, file, dirPath)]

RECURSIVE PlaceFiles(_, _, _, _)
PlaceFiles(groups, tempFiles, dirPath, B) ==
    IF tempFiles = <<>> THEN groups
    ELSE PlaceFiles(PlaceFile(groups, Head(tempFiles), dirPath, B),
                    Tail(tempFiles), dirPath, B)

SplitDirectory(groups, dirPath, dirFiles, B) ==
    PlaceFiles(groups, SortByRelevance(dirFiles), dirPath, B)

-----------------------------------------------------------------------------
(* createSmartFileBatches, compaction (lines 519-546) *)

(* fileGroups.sort((a, b) => a.totalSize - b.totalSize): stable, ascending *)
RECURSIVE InsertBySize(_, _)
InsertBySize(sorted, g) ==
    IF sorted = <<>> THEN <<g>>
    ELSE IF Head(sorted).totalSize <= g.totalSize
         THEN <<Head(sorted)>> \o InsertBySize(Tail(sorted), g)
         ELSE <<g>> \o sorted

RECURSIVE SortBySizeFrom(_, _)
SortBySizeFrom(groups, sorted) ==
    IF groups = <<>> THEN sorted
    ELSE SortBySizeFrom(Tail(groups), InsertBySize(sorted, Head(groups)))

SortBySize(groups) == SortBySizeFrom(groups, <<>>)

RECURSIVE MergeScores(_, _, _)
MergeScores(score, other, dirs) ==
    IF dirs = {} THEN score
    ELSE LET d == CHOOSE x \in dirs : TRUE
         IN  MergeScores(BumpScore(score, d, other[d]), other, dirs \ {d})

MergeGroups(current, next) ==
    [files |-> current.files \o next.files,
     totalSize |-> current.totalSize + next.totalSize,
     directoryScore |-> MergeScores(current.directoryScore, next.directoryScore,
                                    DOMAIN next.directoryScore)]

RemoveAt(s, j) == SubSeq(s, 1, j - 1) \o SubSeq(s, j + 1, Len(s))

(* the inner loop over j: fold every later group that fits into group i *)
RECURSIVE MergeLater(_, _, _, _)
MergeLater(groups, i, j, B) ==
    IF j > Len(groups) THEN groups
    ELSE IF groups[i].totalSize + groups[j].totalSize <= B
         THEN MergeLater(RemoveAt([groups EXCEPT ![i] = MergeGroups(@, groups[j])], j),
                         i, j, B)
         ELSE MergeLater(groups, i, j + 1, B)

(* the outer loop over i, for (i = 0; i < fileGroups.length - 1; i++) *)
RECURSIVE CompactFrom(_, _, _)
CompactFrom(groups, i, B) ==
    IF i >= Len(groups) THEN groups
    ELSE IF 2 * groups[i].totalSize < B
         THEN CompactFrom(MergeLater(groups, i, i + 1, B), i + 1, B)
         ELSE CompactFrom(groups, i + 1, B)

Compact(groups, B) == CompactFrom(SortBySize(groups), 1, B)

(* fileGroups.map(group => group.files) *)
ExtractBatches(groups) == [k \in 1..Len(groups) |-> groups[k].files]

-----------------------------------------------------------------------------
(* mutant: the early return is missing *)
FitsOneBatchNever(fs, B) == FALSE

(* line 408: totalSize <= maxBatchSize *)
FitsOneBatch(fs, B) == JsonArraySize(fs) <= B

-----------------------------------------------------------------------------
(* createSmartFileBatches step by step: SpecBatches *)

RECURSIVE FileLists(_)
FileLists(n) ==
    IF n = 0 THEN { <<>> }
    ELSE LET shorter == FileLists(n - 1)
         IN  shorter \cup
             { Append(l, FileOf(d, Len(l) + 1, s, r)) :
                 l \in { x \in shorter : Len(x) = n - 1 },
                 d \in Dirs, s \in FileSizes, r \in Relevances }

(* let lastResult = null; a failed batch's { rawContent: null } *)
NullResult ==
    [kind |-> "null", call |-> "none", batch |-> 0,
     checkpoints |-> 0, points |-> 0, nullEntry |-> FALSE]

(* lines 655-659 *)
EmptyContext == [processedFiles |-> <<>>, keyInsights |-> <<>>, batchResults |-> <<>>]

(* a projectDetail without a batch or summary prompt in front *)
NoPrompt ==
    [kind |-> "none", processedFiles |-> <<>>, keyInsights |-> <<>>, analyses |-> <<>>]

(* evaluateCode has not been called *)
NoParams == [relevantFiles |-> <<>>, projectDetail |-> NoPrompt]

(* evaluateCodeInBatches has not been called *)
OrchLocalsIdle ==
    /\ relevantFiles = <<>>
    /\ batches = <<>>
    /\ pc = "idle"
    /\ callKind = "none"
    /\ batchIdx = 0
    /\ retryCount = 0
    /\ currentUrlIndex = 0
    /\ context = EmptyContext
    /\ lastResult = NullResult
    /\ outcome = "none"
    /\ verdict = NullResult
    /\ invocations = 0
    /\ summaryCalls = 0
    /\ lastBatchFinal = NullResult
    /\ callParams = NoParams

(* no evaluation run is in progress, in production with an API key *)
OrchIdle ==
    /\ env = [dev |-> FALSE, apiKey |-> TRUE, useMock |-> FALSE]
    /\ OrchLocalsIdle

InitBatches ==
    /\ files \in FileLists(MaxFiles)
    /\ maxBatchSize \in Budgets
    /\ fileGroups = <<>>
    /\ dirIndex = 0
    /\ bpc = "start"
    /\ outBatches = <<>>
    /\ OrchIdle
    /\ ExtractorIdle /\ ScorerIdle /\ RunsIdle /\ PayloadIdle

(* lines 406-410: the whole list fits the budget *)
ReturnSingleBatch ==
    /\ bpc = "start"
    /\ FitsOneBatch(files, maxBatchSize)
    /\ outBatches' = << files >>
    /\ bpc' = "done"
    /\ UNCHANGED <<files, maxBatchSize, fileGroups, dirIndex, ovars, avars>>

(* lines 412-428: build directoryMap and open the first group *)
GroupByDirectory ==
    /\ bpc = "start"
    /\ ~FitsOneBatch(files, maxBatchSize)
    /\ fileGroups' = <<EmptyGroup>>
    /\ dirIndex' = 1
    /\ bpc' = "dirs"
    /\ UNCHANGED <<files, maxBatchSize, outBatches, ovars, avars>>

(* lines 431-483: a directory that goes to one group as a whole *)
PlaceWholeDirectory ==
    /\ bpc = "dirs"
    /\ dirIndex <= Len(DirKeys(files))
    /\ LET dirPath == DirKeys(files)[dirIndex]
           dirFiles == DirFiles(files, dirPath)
       IN  /\ FitsWholeDirectory(JsonArraySize(dirFiles), maxBatchSize)
           /\ fileGroups' = PlaceDirectory(fileGroups, dirPath, dirFiles, maxBatchSize)
    /\ dirIndex' = dirIndex + 1
    /\ UNCHANGED <<files, maxBatchSize, bpc, outBatches, ovars, avars>>

(* lines 484-516: a directory that is split file by file *)
SplitLargeDirectory ==
    /\ bpc = "dirs"
    /\ dirIndex <= Len(DirKeys(files))
    /\ LET dirPath == DirKeys(files)[dirIndex]
           dirFiles == DirFiles(files, dirPath)
       IN  /\ ~FitsWholeDirectory(JsonArraySize(dirFiles), maxBatchSize)
           /\ fileGroups' = SplitDirectory(fileGroups, dirPath, dirFiles, maxBatchSize)
    /\ dirIndex' = dirIndex + 1
    /\ UNCHANGED <<files, maxBatchSize, bpc, outBatches, ovars, avars>>

(* lines 519-546: sort the groups and merge the small ones *)
CompactGroups ==
    /\ bpc = "dirs"
    /\ dirIndex > Len(DirKeys(files))
    /\ fileGroups' = Compact(fileGroups, maxBatchSize)
    /\ bpc' = "extract"
    /\ UNCHANGED <<files, maxBatchSize, dirIndex, outBatches, ovars, avars>>

(* lines 548-556: return the groups' files *)
ReturnBatches ==
    /\ bpc = "extract"
    /\ outBatches' = ExtractBatches(fileGroups)
    /\ bpc' = "done"
    /\ UNCHANGED <<files, maxBatchSize, fileGroups, dirIndex, ovars, avars>>

NextBatches ==
    \/ ReturnSingleBatch
    \/ GroupByDirectory
    \/ PlaceWholeDirectory
    \/ SplitLargeDirectory
    \/ CompactGroups
    \/ ReturnBatches

SpecBatches == InitBatches /\ [][NextBatches]_vars

-----------------------------------------------------------------------------
(* evaluateCode and evaluateCodeInBatches: Spec *)

MaxRetries == 3             \* const maxRetries
ApiBaseUrlCount == 1        \* API_BASE_URLS.length
MaxBatchChars == 300000     \* const MAX_BATCH_CHARS
InsightCap == 5             \* keyInsights.slice(0, 5)
CheckpointInsights == 3     \* insights.slice(0, 3)
SummaryInsights == 2        \* summaryPoints .slice(0, 2)

(* files of an evaluation run, sized around the 300000 budget: directory
   and JSON.stringify(file).length *)
RunFileKinds ==
    { [dir |-> <<"t">>, size |-> 120000],
      [dir |-> <<"s">>, size |-> 200000],
      [dir |-> <<"s">>, size |-> 300001] }

RECURSIVE RunFileLists(_)
RunFileLists(n) ==
    IF n = 0 THEN { <<>> }
    ELSE LET shorter == RunFileLists(n - 1)
         IN  shorter \cup
             { Append(l, FileOf(k.dir, Len(l) + 1, k.size, 50)) :
                 l \in { x \in shorter : Len(x) = n - 1 }, k \in RunFileKinds }

(* what the model answers when the request succeeds: whether the text parses
   to JSON, how many checkpoints have a status and details, how many pieces
   of the summary are longer than 10 characters, and whether the checkpoint
   list holds an entry (null) whose fields cannot be read *)
Responses ==
    { [json |-> FALSE, checkpoints |-> 0, points |-> 0, nullEntry |-> FALSE],
      [json |-> TRUE,  checkpoints |-> 2, points |-> 1, nullEntry |-> FALSE],
      [json |-> TRUE,  checkpoints |-> 4, points |-> 3, nullEntry |-> FALSE],
      [json |-> TRUE,  checkpoints |-> 1, points |-> 3, nullEntry |-> TRUE] }

(* getMockEvaluationResult(): 3 checkpoints, a summary of 6 pieces *)
MockResult ==
    [kind |-> "mock", call |-> "none", batch |-> 0,
     checkpoints |-> 3, points |-> 6, nullEntry |-> FALSE]

(* mutant: text that is not JSON is handed on without the wrapper *)
ResultOfNoWrapper(resp, kind, i) ==
    IF resp.json
    THEN [kind |-> "json", call |-> kind, batch |-> i,
          checkpoints |-> resp.checkpoints, points |-> resp.points,
          nullEntry |-> resp.nullEntry]
    ELSE NullResult

(* lines 279-306: rawContent is the parsed object, or the wrapper
   {textContent, isJsonFormat: false, message} when the text does not parse *)
ResultOf(resp, kind, i) ==
    IF resp.json
    THEN [kind |-> "json", call |-> kind, batch |-> i,
          checkpoints |-> resp.checkpoints, points |-> resp.points,
          nullEntry |-> resp.nullEntry]
    ELSE [kind |-> "text", call |-> kind, batch |-> i,
          checkpoints |-> 0, points |-> 0, nullEntry |-> FALSE]

(* mutant: USE_MOCK_DATA is not looked at *)
ShouldUseMockDataDevOnly == env.dev /\ ~env.apiKey

(* shouldUseMockData() *)
ShouldUseMockData == (env.dev /\ ~env.apiKey) \/ env.useMock

(* mutant: the wait follows every failed attempt *)
WaitsBeforeRetryAlways(rc) == TRUE

(* line 324: if (retryCount < maxRetries) wait 2 s *)
WaitsBeforeRetry(rc) == rc < MaxRetries

(* mutant: the loop bound is off by one *)
LoopContinuesOffByOne(rc) == rc <= MaxRetries

(* line 179: while (retryCount < maxRetries) *)
LoopContinues(rc) == rc < MaxRetries

(* mutant: the index moves on without looking at the length of the list *)
NextUrlIndexUnbounded(rc, urlIndex) ==
    IF rc > 0 THEN urlIndex + 1 ELSE urlIndex

(* lines 182-187: switch to the next base URL on a retry *)
NextUrlIndex(rc, urlIndex) ==
    IF rc > 0 /\ urlIndex < ApiBaseUrlCount - 1 THEN urlIndex + 1 ELSE urlIndex

FilePath(f) == <<f.dir, f.name>>
PathsOf(batch) == [k \in 1..Len(batch) |-> FilePath(batch[k])]

Min(a, b) == IF a < b THEN a ELSE b

(* lines 731-739: up to 3 "<requirement>: <status>" strings *)
CheckpointInsightsOf(result, i) ==
    [k \in 1..Min(result.checkpoints, CheckpointInsights) |-> <<i, "checkpoint", k>>]

(* lines 741-751: up to 2 pieces of the summary *)
SummaryInsightsOf(result, i) ==
    [k \in 1..Min(result.points, SummaryInsights) |-> <<i, "summary", k>>]

(* mutant: the list is never trimmed *)
CapInsightsNever(insights) == insights

(* mutant: the trim keeps the 5 newest entries *)
CapInsightsKeepsNewest(insights) ==
    IF Len(insights) > InsightCap
    THEN SubSeq(insights, Len(insights) - InsightCap + 1, Len(insights))
    ELSE insights

(* lines 753-756 *)
CapInsights(insights) ==
    IF Len(insights) > InsightCap THEN SubSeq(insights, 1, InsightCap) ELSE insights

(* lines 724-761: a null checkpoint entry throws inside the inner try before
   anything is pushed, and the catch leaves keyInsights as it was *)
ExtractInsights(insights, result, i) ==
    IF result.nullEntry THEN insights
    ELSE CapInsights(insights \o CheckpointInsightsOf(result, i) \o SummaryInsightsOf(result, i))

(* mutant: the entry is numbered with the loop index i, not batchNumber *)
BatchRecordLoopIndex(i, result, ok) ==
    [batch |-> i - 1, totalBatches |-> Len(batches), result |-> result,
     processedFiles |-> PathsOf(batches[i]), success |-> ok,
     error |-> IF ok THEN "none" ELSE "Error"]

(* lines 713-722 and 848-855: the entry pushed to context.batchResults *)
BatchRecord(i, result, ok) ==
    [batch |-> i, totalBatches |-> Len(batches), result |-> result,
     processedFiles |-> PathsOf(batches[i]), success |-> ok,
     error |-> IF ok THEN "none" ELSE "Error"]

(* mutant: failed batches are kept among the analyses *)
BatchAnalysesAll(results) == results

(* lines 770-782: the batches with success and a rawContent *)
BatchAnalyses(results) == SelectSeq(results, LAMBDA br : br.success)

(* mutant: the summary runs whenever there were several batches *)
NeedsSummaryAnyBatch(results) == Len(results) > 1

(* line 785 *)
NeedsSummary(results) == Len(BatchAnalyses(results)) > 1

(* mutant: the final batch's prompt lists the files but not the insights *)
CreateBatchPromptFinalBare(batchNumber, totalBatches, ctx, isLastBatch) ==
    IF batchNumber = 1
    THEN [kind |-> "first", processedFiles |-> <<>>, keyInsights |-> <<>>,
          analyses |-> <<>>]
    ELSE IF isLastBatch
    THEN [kind |-> "final", processedFiles |-> ctx.processedFiles,
          keyInsights |-> <<>>, analyses |-> <<>>]
    ELSE [kind |-> "middle", processedFiles |-> ctx.processedFiles,
          keyInsights |-> ctx.keyInsights, analyses |-> <<>>]

(* createBatchPrompt (lines 562-619): the first batch's prompt names
   nothing; a later batch's prompt lists context.processedFiles and
   context.keyInsights, each section left out when its list is empty *)
CreateBatchPrompt(batchNumber, totalBatches, ctx, isLastBatch) ==
    IF batchNumber = 1
    THEN [kind |-> "first", processedFiles |-> <<>>, keyInsights |-> <<>>,
          analyses |-> <<>>]
    ELSE IF isLastBatch
    THEN [kind |-> "final", processedFiles |-> ctx.processedFiles,
          keyInsights |-> ctx.keyInsights, analyses |-> <<>>]
    ELSE [kind |-> "middle", processedFiles |-> ctx.processedFiles,
          keyInsights |-> ctx.keyInsights, analyses |-> <<>>]

(* lines 672-685: batchParams = {...params, relevantFiles: batch,
   projectDetail: batchPrompt + params.projectDetail} *)
BatchParams(i, ctx, bs) ==
    [relevantFiles |-> bs[i],
     projectDetail |-> CreateBatchPrompt(i, Len(bs), ctx, i = Len(bs))]

(* lines 788-805: summaryPrompt lists context.processedFiles and, for every
   entry of batchAnalyses, its batch number, its files and its summary (here
   the number of pieces of the summary); it has no section for keyInsights *)
SummaryPrompt(ctx) ==
    LET batchAnalyses == BatchAnalyses(ctx.batchResults)
    IN  [kind |-> "summary", processedFiles |-> ctx.processedFiles,
         keyInsights |-> <<>>,
         analyses |-> [k \in 1..Len(batchAnalyses) |->
                         [batch |-> batchAnalyses[k].batch,
                          files |-> batchAnalyses[k].processedFiles,
                          summary |-> batchAnalyses[k].result.points]]]

(* mutant: the files of the run stay in the summary request *)
SummaryParamsKeepsFiles(ctx) ==
    [relevantFiles |-> relevantFiles, projectDetail |-> SummaryPrompt(ctx)]

(* lines 808-814: summaryParams = {...params, projectDetail, relevantFiles: []} *)
SummaryParams(ctx) ==
    [relevantFiles |-> <<>>, projectDetail |-> SummaryPrompt(ctx)]

(* line 649: evaluateCode(params) *)
SingleParams == [relevantFiles |-> relevantFiles, projectDetail |-> NoPrompt]

(* createSmartFileBatches has not been called *)
PartitionerIdle ==
    /\ files = <<>>
    /\ maxBatchSize = 0
    /\ fileGroups = <<>>
    /\ dirIndex = 0
    /\ bpc = "idle"
    /\ outBatches = <<>>

Init ==
    /\ env \in [dev : BOOLEAN, apiKey : BOOLEAN, useMock : BOOLEAN]
    /\ relevantFiles \in RunFileLists(MaxRunFiles)
    /\ batches = <<>>
    /\ pc = "start"
    /\ callKind = "none"
    /\ batchIdx = 0
    /\ retryCount = 0
    /\ currentUrlIndex = 0
    /\ context = EmptyContext
    /\ lastResult = NullResult
    /\ outcome = "none"
    /\ verdict = NullResult
    /\ invocations = 0
    /\ summaryCalls = 0
    /\ lastBatchFinal = NullResult
    /\ callParams = NoParams
    /\ PartitionerIdle
    /\ ExtractorIdle /\ ScorerIdle /\ RunsIdle /\ PayloadIdle

(* evaluateCode is entered and sends its first request *)
EnterCall(kind, params) ==
    /\ callKind' = kind
    /\ callParams' = params
    /\ retryCount' = 0
    /\ currentUrlIndex' = 0
    /\ invocations' = 1
    /\ pc' = "invoking"

(* the run ends: evaluateCodeInBatches returns v or throws *)
Finish(how, v, rc) ==
    /\ pc' = "done"
    /\ outcome' = how
    /\ verdict' = v
    /\ retryCount' = rc
    /\ UNCHANGED <<callParams, callKind, currentUrlIndex, invocations>>

(* mutant: the context is not updated before the next batch's call *)
BatchReturnedLateUpdate(result, rc) ==
    LET isLastBatch == batchIdx = Len(batches)
        recorded == [context EXCEPT
                       !.processedFiles = @ \o PathsOf(batches[batchIdx]),
                       !.batchResults = Append(@, BatchRecord(batchIdx, result, TRUE))]
    IN  /\ lastResult' = result
        /\ IF ~isLastBatch
           THEN /\ context' = context
                /\ pc' = "cooldown"
                /\ retryCount' = rc
                /\ UNCHANGED <<callParams, callKind, currentUrlIndex, invocations, outcome,
                               verdict, summaryCalls, lastBatchFinal, batchIdx>>
           ELSE /\ context' = recorded
                /\ lastBatchFinal' = result
                /\ UNCHANGED batchIdx
                /\ IF NeedsSummary(recorded.batchResults)
                   THEN /\ EnterCall("summary", SummaryParams(recorded))
                        /\ summaryCalls' = summaryCalls + 1
                        /\ UNCHANGED <<outcome, verdict>>
                   ELSE /\ Finish("returned", result, rc)
                        /\ UNCHANGED summaryCalls

(* mutant: after the final batch the result stored before it is returned *)
BatchReturnedStoredResult(result, rc) ==
    LET isLastBatch == batchIdx = Len(batches)
        recorded == [context EXCEPT
                       !.processedFiles = @ \o PathsOf(batches[batchIdx]),
                       !.batchResults = Append(@, BatchRecord(batchIdx, result, TRUE))]
    IN  /\ lastResult' = result
        /\ IF ~isLastBatch
           THEN /\ context' = [recorded EXCEPT
                                 !.keyInsights = ExtractInsights(@, result, batchIdx)]
                /\ pc' = "cooldown"
                /\ retryCount' = rc
                /\ UNCHANGED <<callParams, callKind, currentUrlIndex, invocations, outcome,
                               verdict, summaryCalls, lastBatchFinal, batchIdx>>
           ELSE /\ context' = recorded
                /\ lastBatchFinal' = result
                /\ UNCHANGED batchIdx
                /\ IF NeedsSummary(recorded.batchResults)
                   THEN /\ EnterCall("summary", SummaryParams(recorded))
                        /\ summaryCalls' = summaryCalls + 1
                        /\ UNCHANGED <<outcome, verdict>>
                   ELSE /\ Finish("returned", lastResult, rc)
                        /\ UNCHANGED summaryCalls

(* mutant: the insights of the final batch are extracted as well *)
BatchReturnedAlwaysExtracts(result, rc) ==
    LET isLastBatch == batchIdx = Len(batches)
        recorded == [context EXCEPT
                       !.processedFiles = @ \o PathsOf(batches[batchIdx]),
                       !.batchResults = Append(@, BatchRecord(batchIdx, result, TRUE)),
                       !.keyInsights = ExtractInsights(@, result, batchIdx)]
    IN  /\ lastResult' = result
        /\ IF ~isLastBatch
           THEN /\ context' = recorded
                /\ pc' = "cooldown"
                /\ retryCount' = rc
                /\ UNCHANGED <<callParams, callKind, currentUrlIndex, invocations, outcome,
                               verdict, summaryCalls, lastBatchFinal, batchIdx>>
           ELSE /\ context' = recorded
                /\ lastBatchFinal' = result
                /\ UNCHANGED batchIdx
                /\ IF NeedsSummary(recorded.batchResults)
                   THEN /\ EnterCall("summary", SummaryParams(recorded))
                        /\ summaryCalls' = summaryCalls + 1
                        /\ UNCHANGED <<outcome, verdict>>
                   ELSE /\ Finish("returned", result, rc)
                        /\ UNCHANGED summaryCalls

(* lines 705-844: evaluateCode(batchParams) returned result *)
BatchReturned(result, rc) ==
    LET isLastBatch == batchIdx = Len(batches)
        recorded == [context EXCEPT
                       !.processedFiles = @ \o PathsOf(batches[batchIdx]),
                       !.batchResults = Append(@, BatchRecord(batchIdx, result, TRUE))]
    IN  /\ lastResult' = result
        /\ IF ~isLastBatch
           THEN /\ context' = [recorded EXCEPT
                                 !.keyInsights = ExtractInsights(@, result, batchIdx)]
                /\ pc' = "cooldown"
                /\ retryCount' = rc
                /\ UNCHANGED <<callParams, callKind, currentUrlIndex, invocations, outcome,
                               verdict, summaryCalls, lastBatchFinal, batchIdx>>
           ELSE /\ context' = recorded
                /\ lastBatchFinal' = result
                /\ UNCHANGED batchIdx
                /\ IF NeedsSummary(recorded.batchResults)
                   THEN /\ EnterCall("summary", SummaryParams(recorded))
                        /\ summaryCalls' = summaryCalls + 1
                        /\ UNCHANGED <<outcome, verdict>>
                   ELSE /\ Finish("returned", result, rc)
                        /\ UNCHANGED summaryCalls

(* evaluateCode returned result to its caller *)
CallReturned(result, rc) ==
    CASE callKind = "single" ->
            /\ Finish("returned", result, rc)
            /\ UNCHANGED <<context, lastResult, batchIdx, summaryCalls, lastBatchFinal>>
      [] callKind = "summary" ->
            /\ lastResult' = result
            /\ Finish("returned", result, rc)
            /\ UNCHANGED <<context, batchIdx, summaryCalls, lastBatchFinal>>
      [] callKind = "batch" -> BatchReturned(result, rc)

(* mutant: a failed batch aborts the run, final or not *)
CallThrewAbortsRun(rc) ==
    CASE callKind = "single" ->
            /\ Finish("threw", NullResult, rc)
            /\ UNCHANGED <<context, lastResult, batchIdx, summaryCalls, lastBatchFinal>>
      [] callKind = "summary" ->
            /\ Finish("returned", lastBatchFinal, rc)
            /\ UNCHANGED <<context, lastResult, batchIdx, summaryCalls, lastBatchFinal>>
      [] callKind = "batch" ->
            /\ context' = [context EXCEPT
                             !.batchResults = Append(@, BatchRecord(batchIdx, NullResult, FALSE))]
            /\ Finish("threw", NullResult, rc)
            /\ UNCHANGED <<lastResult, summaryCalls, lastBatchFinal, batchIdx>>

(* mutant: a failed final batch is not rethrown, the loop ends and the
   last stored result is returned when there is one *)
CallThrewNoRethrow(rc) ==
    CASE callKind = "single" ->
            /\ Finish("threw", NullResult, rc)
            /\ UNCHANGED <<context, lastResult, batchIdx, summaryCalls, lastBatchFinal>>
      [] callKind = "summary" ->
            /\ Finish("returned", lastBatchFinal, rc)
            /\ UNCHANGED <<context, lastResult, batchIdx, summaryCalls, lastBatchFinal>>
      [] callKind = "batch" ->
            /\ context' = [context EXCEPT
                             !.batchResults = Append(@, BatchRecord(batchIdx, NullResult, FALSE))]
            /\ UNCHANGED <<lastResult, summaryCalls, lastBatchFinal>>
            /\ IF batchIdx = Len(batches)
               THEN /\ IF lastResult = NullResult
                       THEN Finish("threw", NullResult, rc)
                       ELSE Finish("returned", lastResult, rc)
                    /\ UNCHANGED batchIdx
               ELSE /\ batchIdx' = batchIdx + 1
                    /\ EnterCall("batch", BatchParams(batchIdx + 1, context', batches))
                    /\ UNCHANGED <<outcome, verdict>>

(* mutant: the summary call is not guarded, its failure fails the run *)
CallThrewSummaryFatal(rc) ==
    CASE callKind \in {"single", "summary"} ->
            /\ Finish("threw", NullResult, rc)
            /\ UNCHANGED <<context, lastResult, batchIdx, summaryCalls, lastBatchFinal>>
      [] callKind = "batch" ->
            /\ context' = [context EXCEPT
                             !.batchResults = Append(@, BatchRecord(batchIdx, NullResult, FALSE))]
            /\ UNCHANGED <<lastResult, summaryCalls, lastBatchFinal>>
            /\ IF batchIdx = Len(batches)
               THEN /\ Finish("threw", NullResult, rc)
                    /\ UNCHANGED batchIdx
               ELSE /\ batchIdx' = batchIdx + 1
                    /\ EnterCall("batch", BatchParams(batchIdx + 1, context', batches))
                    /\ UNCHANGED <<outcome, verdict>>

(* mutant: after a failed summary call the unset summary result is returned *)
CallThrewReturnsNothing(rc) ==
    CASE callKind = "single" ->
            /\ Finish("threw", NullResult, rc)
            /\ UNCHANGED <<context, lastResult, batchIdx, summaryCalls, lastBatchFinal>>
      [] callKind = "summary" ->
            /\ Finish("returned", NullResult, rc)
            /\ UNCHANGED <<context, lastResult, batchIdx, summaryCalls, lastBatchFinal>>
      [] callKind = "batch" ->
            /\ context' = [context EXCEPT
                             !.batchResults = Append(@, BatchRecord(batchIdx, NullResult, FALSE))]
            /\ UNCHANGED <<lastResult, summaryCalls, lastBatchFinal>>
            /\ IF batchIdx = Len(batches)
               THEN /\ Finish("threw", NullResult, rc)
                    /\ UNCHANGED batchIdx
               ELSE /\ batchIdx' = batchIdx + 1
                    /\ EnterCall("batch", BatchParams(batchIdx + 1, context', batches))
                    /\ UNCHANGED <<outcome, verdict>>

(* mutant: a failed batch clears the stored result *)
CallThrewClearsResult(rc) ==
    CASE callKind = "single" ->
            /\ Finish("threw", NullResult, rc)
            /\ UNCHANGED <<context, lastResult, batchIdx, summaryCalls, lastBatchFinal>>
      [] callKind = "summary" ->
            /\ Finish("returned", lastBatchFinal, rc)
            /\ UNCHANGED <<context, lastResult, batchIdx, summaryCalls, lastBatchFinal>>
      [] callKind = "batch" ->
            /\ context' = [context EXCEPT
                             !.batchResults = Append(@, BatchRecord(batchIdx, NullResult, FALSE))]
            /\ lastResult' = NullResult
            /\ UNCHANGED <<summaryCalls, lastBatchFinal>>
            /\ IF batchIdx = Len(batches)
               THEN /\ Finish("threw", NullResult, rc)
                    /\ UNCHANGED batchIdx
               ELSE /\ batchIdx' = batchIdx + 1
                    /\ EnterCall("batch", BatchParams(batchIdx + 1, context', batches))
                    /\ UNCHANGED <<outcome, verdict>>

(* mutant: the paths of a failed batch are recorded as processed too *)
CallThrewRecordsPaths(rc) ==
    CASE callKind = "single" ->
            /\ Finish("threw", NullResult, rc)
            /\ UNCHANGED <<context, lastResult, batchIdx, summaryCalls, lastBatchFinal>>
      [] callKind = "summary" ->
            /\ Finish("returned", lastBatchFinal, rc)
            /\ UNCHANGED <<context, lastResult, batchIdx, summaryCalls, lastBatchFinal>>
      [] callKind = "batch" ->
            /\ context' = [context EXCEPT
                             !.processedFiles = @ \o PathsOf(batches[batchIdx]),
                             !.batchResults = Append(@, BatchRecord(batchIdx, NullResult, FALSE))]
            /\ UNCHANGED <<lastResult, summaryCalls, lastBatchFinal>>
            /\ IF batchIdx = Len(batches)
               THEN /\ Finish("threw", NullResult, rc)
                    /\ UNCHANGED batchIdx
               ELSE /\ batchIdx' = batchIdx + 1
                    /\ EnterCall("batch", BatchParams(batchIdx + 1, context', batches))
                    /\ UNCHANGED <<outcome, verdict>>

(* lines 845-866 and 830-837: evaluateCode threw *)
CallThrew(rc) ==
    CASE callKind = "single" ->
            /\ Finish("threw", NullResult, rc)
            /\ UNCHANGED <<context, lastResult, batchIdx, summaryCalls, lastBatchFinal>>
      [] callKind = "summary" ->
            /\ Finish("returned", lastBatchFinal, rc)
            /\ UNCHANGED <<context, lastResult, batchIdx, summaryCalls, lastBatchFinal>>
      [] callKind = "batch" ->
            /\ context' = [context EXCEPT
                             !.batchResults = Append(@, BatchRecord(batchIdx, NullResult, FALSE))]
            /\ UNCHANGED <<lastResult, summaryCalls, lastBatchFinal>>
            /\ IF batchIdx = Len(batches)
               THEN /\ Finish("threw", NullResult, rc)
                    /\ UNCHANGED batchIdx
               ELSE /\ batchIdx' = batchIdx + 1
                    /\ EnterCall("batch", BatchParams(batchIdx + 1, context', batches))
                    /\ UNCHANGED <<outcome, verdict>>

(* lines 630-634 *)
ReturnMockData ==
    /\ pc = "start"
    /\ ShouldUseMockData
    /\ Finish("returned", MockResult, retryCount)
    /\ UNCHANGED <<batches, context, lastResult, batchIdx, summaryCalls,
                   lastBatchFinal, env, relevantFiles, bvars, avars>>

(* lines 636-644: createSmartFileBatches(allFiles, MAX_BATCH_CHARS) is called *)
StartRun ==
    /\ pc = "start"
    /\ ~ShouldUseMockData
    /\ files' = relevantFiles
    /\ maxBatchSize' = MaxBatchChars
    /\ bpc' = "start"
    /\ pc' = "batching"
    /\ UNCHANGED <<fileGroups, dirIndex, outBatches, env, relevantFiles, batches,
                   callKind, batchIdx, retryCount, currentUrlIndex, context,
                   lastResult, outcome, verdict, invocations, summaryCalls,
                   lastBatchFinal, callParams, avars>>

(* mutant: a single batch goes through the batch loop like any other *)
EvaluateBatchesNoShortcut ==
    /\ pc = "batching"
    /\ bpc = "done"
    /\ batches' = outBatches
    /\ EnterCall("batch", BatchParams(1, EmptyContext, outBatches))
    /\ batchIdx' = 1
    /\ context' = EmptyContext
    /\ UNCHANGED <<lastResult, outcome, verdict, summaryCalls, lastBatchFinal,
                   env, relevantFiles, bvars, avars>>

(* lines 644-705: the batches are back; either the single evaluateCode call
   or the first batch's call is sent *)
EvaluateBatches ==
    /\ pc = "batching"
    /\ bpc = "done"
    /\ batches' = outBatches
    /\ IF Len(outBatches) = 1
       THEN /\ EnterCall("single", SingleParams)
            /\ batchIdx' = 0
       ELSE /\ EnterCall("batch", BatchParams(1, EmptyContext, outBatches))
            /\ batchIdx' = 1
    /\ context' = EmptyContext
    /\ UNCHANGED <<lastResult, outcome, verdict, summaryCalls, lastBatchFinal,
                   env, relevantFiles, bvars, avars>>

(* lines 195-306: the request succeeds and evaluateCode returns *)
RequestSucceeds ==
    /\ pc = "invoking"
    /\ \E resp \in Responses :
          CallReturned(ResultOf(resp, callKind, batchIdx), retryCount)
    /\ UNCHANGED <<batches, env, relevantFiles, bvars, avars>>

(* lines 307-341: the request fails *)
RequestFails ==
    /\ pc = "invoking"
    /\ LET rc == retryCount + 1
       IN  IF WaitsBeforeRetry(rc)
           THEN /\ pc' = "backoff"
                /\ retryCount' = rc
                /\ UNCHANGED <<callParams, callKind, currentUrlIndex, invocations, context,
                               lastResult, batchIdx, outcome, verdict, summaryCalls,
                               lastBatchFinal>>
           ELSE IF env.dev
           THEN CallReturned(MockResult, rc)
           ELSE IF LoopContinues(rc)
           THEN /\ pc' = "invoking"
                /\ retryCount' = rc
                /\ currentUrlIndex' = NextUrlIndex(rc, currentUrlIndex)
                /\ invocations' = invocations + 1
                /\ UNCHANGED <<callParams, callKind, context, lastResult, batchIdx, outcome,
                               verdict, summaryCalls, lastBatchFinal>>
           ELSE CallThrew(rc)
    /\ UNCHANGED <<batches, env, relevantFiles, bvars, avars>>

(* lines 327 and 179-195: the 2 s wait is over, the next attempt is sent *)
RetryAfterBackoff ==
    /\ pc = "backoff"
    /\ IF LoopContinues(retryCount)
       THEN /\ pc' = "invoking"
            /\ currentUrlIndex' = NextUrlIndex(retryCount, currentUrlIndex)
            /\ invocations' = invocations + 1
            /\ UNCHANGED <<callParams, callKind, retryCount, context, lastResult, batchIdx,
                           outcome, verdict, summaryCalls, lastBatchFinal>>
       ELSE CallThrew(retryCount)
    /\ UNCHANGED <<batches, env, relevantFiles, bvars, avars>>

(* lines 840-844 and 664-705: the 1 s cooldown is over, the next batch's
   call is sent *)
NextBatchAfterCooldown ==
    /\ pc = "cooldown"
    /\ batchIdx' = batchIdx + 1
    /\ EnterCall("batch", BatchParams(batchIdx + 1, context, batches))
    /\ UNCHANGED <<context, lastResult, outcome, verdict, summaryCalls,
                   lastBatchFinal, batches, env, relevantFiles, bvars, avars>>

Next ==
    \/ ReturnMockData
    \/ StartRun
    \/ NextBatches
    \/ EvaluateBatches
    \/ RequestSucceeds
    \/ RequestFails
    \/ RetryAfterBackoff
    \/ NextBatchAfterCooldown

Spec == Init /\ [][Next]_vars

(* a request resolves (the client has a timeout) and the waits end, so the
   run always takes its next step *)
FairSpec == Spec /\ WF_vars(Next)

-----------------------------------------------------------------------------
(* extractJsonFromMarkdown: SpecExtract *)
(* A reply is a sequence of tokens: "w" a word of prose, "{" and "}",     *)
(* "," a comma, "F" a fence of three backticks, "j" the word json after a *)
(* fence, "n" a newline. The only JSON text these tokens spell is the     *)
(* empty object, with newlines anywhere around the braces.                *)

MaxTextLen == 6

Tokens == {"w", "{", "}", ",", "F", "j", "n"}

Texts(n) == UNION { [1..k -> Tokens] : k \in 0..n }

StripWhitespace(t) == SelectSeq(t, LAMBDA c : c # "n")

(* JSON.parse(t) returns an object instead of throwing *)
JsonParses(t) == StripWhitespace(t) = <<"{", "}">>

Least(S) == CHOOSE x \in S : \A y \in S : x <= y
Greatest(S) == CHOOSE x \in S : \A y \in S : x >= y

(* how many newlines follow each other from position p on *)
NewlineRun(t, p) ==
    Greatest({ r \in 0..(Len(t) + 1 - p) : \A x \in p..(p + r - 1) : t[x] = "n" })

(* the position after an optional "json" behind the fence at i *)
AfterLanguage(t, i) == IF i + 1 <= Len(t) /\ t[i + 1] = "j" THEN i + 2 ELSE i + 1

NoMatch == [found |-> FALSE, capture |-> <<>>]

(* where the lazy group of jsonBlockRegex ends when it starts at from: the
   first newline that a fence follows; 0 when there is none *)
ClosingNewline(t, from) ==
    LET E == { e \in from..(Len(t) - 1) : t[e] = "n" /\ t[e + 1] = "F" }
    IN  IF E = {} THEN 0 ELSE Least(E)

(* doubao.ts line 88, the regex tried at position i: a fence, an optional json,
   \s*\n as the longest run of newlines that still lets the rest match,
   the shortest capture, a newline and a fence *)
JsonBlockMatchAt(t, i) ==
    IF t[i] # "F" THEN NoMatch
    ELSE LET p == AfterLanguage(t, i)
             K == { k \in 1..NewlineRun(t, p) : ClosingNewline(t, p + k) # 0 }
         IN  IF K = {} THEN NoMatch
             ELSE LET k == Greatest(K)
                  IN  [found |-> TRUE,
                       capture |-> SubSeq(t, p + k, ClosingNewline(t, p + k) - 1)]

(* text.match(jsonBlockRegex): the leftmost match *)
JsonBlockMatch(t) ==
    LET I == { i \in 1..Len(t) : JsonBlockMatchAt(t, i).found }
    IN  IF I = {} THEN NoMatch ELSE JsonBlockMatchAt(t, Least(I))

ParsedObject(k) == [value |-> "object", strategy |-> k]
ParsedNull == [value |-> "null", strategy |-> 0]

(* doubao.ts lines 79-104 *)
ExtractJsonFromMarkdown(t) ==
    IF JsonParses(t) THEN ParsedObject(1)
    ELSE LET match == JsonBlockMatch(t)
         IN  IF match.found /\ match.capture # <<>> /\ JsonParses(match.capture)
             THEN ParsedObject(2)
             ELSE ParsedNull

RECURSIVE TrimRight(_)
TrimRight(t) ==
    IF t # <<>> /\ t[Len(t)] = "n" THEN TrimRight(SubSeq(t, 1, Len(t) - 1)) ELSE t

(* part_008 line 39, the regex tried at position i: a fence, an optional
   json, the newlines after it, the shortest capture that newlines and a
   fence follow *)
CodeBlockMatchAt(t, i) ==
    IF t[i] # "F" THEN NoMatch
    ELSE LET p == AfterLanguage(t, i)
             start == p + NewlineRun(t, p)
             Fences == { f \in start..Len(t) : t[f] = "F" }
         IN  IF Fences = {} THEN NoMatch
             ELSE [found |-> TRUE,
                   capture |-> TrimRight(SubSeq(t, start, Least(Fences) - 1))]

(* text.match(codeBlockRegex): the leftmost match *)
CodeBlockMatch(t) ==
    LET I == { i \in 1..Len(t) : CodeBlockMatchAt(t, i).found }
    IN  IF I = {} THEN NoMatch ELSE CodeBlockMatchAt(t, Least(I))

(* part_008 line 54, /\{[\s\S]*\}/: from the first "{" to the last "}" *)
JsonMatch(t) ==
    LET Opens == { a \in 1..Len(t) : t[a] = "{" }
        Closes == { b \in 1..Len(t) : t[b] = "}" }
    IN  IF Opens = {} \/ Closes = {} \/ Greatest(Closes) < Least(Opens)
        THEN NoMatch
        ELSE [found |-> TRUE, capture |-> SubSeq(t, Least(Opens), Greatest(Closes))]

(* the next token that is not a newline, "" at the end *)
RECURSIVE NextAfterNewlines(_)
NextAfterNewlines(t) ==
    IF t = <<>> THEN ""
    ELSE IF Head(t) = "n" THEN NextAfterNewlines(Tail(t)) ELSE Head(t)

RECURSIVE DropNewlines(_)
DropNewlines(t) ==
    IF t # <<>> /\ Head(t) = "n" THEN DropNewlines(Tail(t)) ELSE t

(* part_008 lines 69-75: the replacements on quotes find nothing in these
   tokens; replace(/,\s*}/g, '}') deletes a comma, and the newlines after
   it, when a "}" follows *)
RECURSIVE FixJson(_)
FixJson(t) ==
    IF t = <<>> THEN <<>>
    ELSE IF Head(t) = "," /\ NextAfterNewlines(Tail(t)) = "}"
         THEN FixJson(DropNewlines(Tail(t)))
         ELSE <<Head(t)>> \o FixJson(Tail(t))

(* src/unnamed/part_008 lines 22-95 *)
ExtractJsonFromMarkdownVertex(t) ==
    IF JsonParses(t) THEN ParsedObject(1)
    ELSE LET match == CodeBlockMatch(t)
             jsonMatch == JsonMatch(t)
         IN  IF match.found /\ match.capture # <<>> /\ JsonParses(match.capture)
             THEN ParsedObject(2)
             ELSE IF ~jsonMatch.found THEN ParsedNull
             ELSE IF JsonParses(jsonMatch.capture) THEN ParsedObject(3)
             ELSE IF JsonParses(FixJson(jsonMatch.capture)) THEN ParsedObject(4)
             ELSE ParsedNull

InitExtract ==
    /\ text \in Texts(MaxTextLen)
    /\ parsedContent = [value |-> "unset", strategy |-> 0]
    /\ parsedVertex = [value |-> "unset", strategy |-> 0]
    /\ PartitionerIdle /\ OrchIdle /\ ScorerIdle /\ RunsIdle /\ PayloadIdle

(* doubao.ts line 286 *)
ExtractReply ==
    /\ parsedContent.value = "unset"
    /\ parsedContent' = ExtractJsonFromMarkdown(text)
    /\ UNCHANGED <<text, parsedVertex, bvars, ovars, svars, cvars, pvars>>

(* the same reply given to the extractor of part_008 *)
ExtractReplyVertex ==
    /\ parsedVertex.value = "unset"
    /\ parsedVertex' = ExtractJsonFromMarkdownVertex(text)
    /\ UNCHANGED <<text, parsedContent, bvars, ovars, svars, cvars, pvars>>

NextExtract == ExtractReply \/ ExtractReplyVertex

SpecExtract == InitExtract /\ [][NextExtract]_vars

-----------------------------------------------------------------------------
(* Concurrent evaluateCode calls sharing the module-level client: SpecRuns *)
(* Each run makes its evaluateCode calls one after the other; the runs   *)
(* interleave at every await. runs[r] holds the locals of run r's call.  *)

MaxRuns == 2
MaxCalls == 2

RunIds == 1..MaxRuns

(* mutant: every retry creates a client for the next index *)
SwitchClientOnEveryRetry(rc, urlIndex, client) ==
    IF rc > 0 THEN urlIndex + 1 ELSE client

(* lines 182-187: the client the request of the next attempt is sent with *)
SwitchClient(rc, urlIndex, client) ==
    IF NextUrlIndex(rc, urlIndex) # urlIndex
    THEN NextUrlIndex(rc, urlIndex)
    ELSE client

InitRuns ==
    /\ openai = 0
    /\ runs = [r \in RunIds |->
                 [pc |-> "idle", calls |-> 0, retryCount |-> 0,
                  currentUrlIndex |-> 0, usedUrl |-> 0,
                  requests |-> 0, result |-> "none"]]
    /\ env \in [dev : BOOLEAN, apiKey : BOOLEAN, useMock : BOOLEAN]
    /\ PartitionerIdle /\ OrchLocalsIdle /\ ExtractorIdle /\ ScorerIdle /\ PayloadIdle

(* lines 113-118: run r enters evaluateCode in mock mode and gets
   getMockEvaluationResult() back *)
RunReturnsMockData(r) ==
    /\ runs[r].pc = "idle"
    /\ runs[r].calls < MaxCalls
    /\ ShouldUseMockData
    /\ runs' = [runs EXCEPT ![r] =
                  [pc |-> "idle", calls |-> @.calls + 1, retryCount |-> 0,
                   currentUrlIndex |-> 0, usedUrl |-> @.usedUrl,
                   requests |-> 0, result |-> "mock"]]
    /\ UNCHANGED <<openai, bvars, ovars, xvars, svars, pvars>>

(* lines 109-195: run r enters evaluateCode and sends the first request *)
BeginCall(r) ==
    /\ runs[r].pc = "idle"
    /\ runs[r].calls < MaxCalls
    /\ ~ShouldUseMockData
    /\ openai' = SwitchClient(0, 0, openai)
    /\ runs' = [runs EXCEPT ![r] =
                  [pc |-> "invoking", calls |-> @.calls + 1, retryCount |-> 0,
                   currentUrlIndex |-> NextUrlIndex(0, 0),
                   usedUrl |-> SwitchClient(0, 0, openai),
                   requests |-> 1, result |-> "none"]]
    /\ UNCHANGED <<bvars, ovars, xvars, svars, pvars>>

(* lines 195-306: the request of run r succeeds, the call returns *)
RunRequestSucceeds(r) ==
    /\ runs[r].pc = "invoking"
    /\ runs' = [runs EXCEPT ![r].pc = "idle", ![r].result = "reply"]
    /\ UNCHANGED <<openai, bvars, ovars, xvars, svars, pvars>>

(* lines 307-341: the request of run r fails; after the third failure the
   call is over (it throws, or returns the mock result in development) *)
RunRequestFails(r) ==
    /\ runs[r].pc = "invoking"
    /\ LET rc == runs[r].retryCount + 1
       IN  runs' = [runs EXCEPT ![r].retryCount = rc,
                                ![r].pc = IF WaitsBeforeRetry(rc) THEN "backoff"
                                                                 ELSE "idle",
                                ![r].result = IF WaitsBeforeRetry(rc) THEN "none"
                                              ELSE IF env.dev THEN "mock"
                                              ELSE "threw"]
    /\ UNCHANGED <<openai, bvars, ovars, xvars, svars, pvars>>

(* lines 327 and 179-195: the 2 s wait of run r is over, the next request
   is sent *)
RunRetryAfterBackoff(r) ==
    /\ runs[r].pc = "backoff"
    /\ LoopContinues(runs[r].retryCount)
    /\ LET rc == runs[r].retryCount
           client == SwitchClient(rc, runs[r].currentUrlIndex, openai)
       IN  /\ openai' = client
           /\ runs' = [runs EXCEPT
                         ![r].pc = "invoking",
                         ![r].currentUrlIndex = NextUrlIndex(rc, @),
                         ![r].usedUrl = client,
                         ![r].requests = @ + 1]
    /\ UNCHANGED <<bvars, ovars, xvars, svars, pvars>>

NextRuns ==
    \E r \in RunIds :
        \/ RunReturnsMockData(r)
        \/ BeginCall(r)
        \/ RunRequestSucceeds(r)
        \/ RunRequestFails(r)
        \/ RunRetryAfterBackoff(r)

SpecRuns == InitRuns /\ [][NextRuns]_vars

-----------------------------------------------------------------------------
(* getRelevantFilesForTask and calculateRelevanceScore: SpecScore *)
(* A JavaScript value is a record [type, words]: for a string, words are  *)
(* its whitespace-separated words in lower case; for the number 5 they    *)
(* are the words of String(5). A file is a record [name, pathWords, ext,  *)
(* dirs, matches]: the search words its lower-case path contains, its     *)
(* extension, the directory names it holds between slashes, and how often *)
(* each search word occurs in its content. Scores are in hundredths.      *)

MaxScoreFiles == 2

Scale == 100    \* the score 1

JsString(ws) == [type |-> "string", words |-> ws]
JsNumber == [type |-> "number", words |-> <<"5">>]
JsUndefined == [type |-> "undefined", words |-> <<>>]

(* word.length *)
WordLength(w) ==
    CASE w = "auth" -> 4
      [] w = "login" -> 5
      [] w = "api" -> 3
      [] w = "5" -> 1

ScoreFileKinds ==
    { [name |-> "route", pathWords |-> {"auth"}, ext |-> "ts",
       dirs |-> {"app", "api"}, matches |-> ("auth" :> 12 @@ "login" :> 1)],
      [name |-> "readme", pathWords |-> {}, ext |-> "md",
       dirs |-> {}, matches |-> ("auth" :> 0 @@ "login" :> 0)],
      [name |-> "login", pathWords |-> {"login"}, ext |-> "jsx",
       dirs |-> {"components"}, matches |-> ("auth" :> 0 @@ "login" :> 3)] }

ScoreFileLists(n) == UNION { [1..k -> ScoreFileKinds] : k \in 0..n }

CurrentTasks ==
    { JsString(<<"auth">>), JsString(<<"login", "api">>), JsNumber, JsUndefined }

(* the tasks argument: an array of values, or something that is no array *)
TaskLists ==
    { [isArray |-> TRUE, items |-> <<>>],
      [isArray |-> TRUE, items |-> <<JsString(<<"auth">>)>>],
      [isArray |-> TRUE, items |-> <<JsString(<<"login">>), JsNumber>>],
      [isArray |-> FALSE, items |-> <<>>] }

ProjectDetails == { JsString(<<"login">>), JsNumber, JsUndefined }

Evidences == { JsString(<<"auth", "login">>), JsString(<<>>), JsUndefined }

Max(a, b) == IF a > b THEN a ELSE b

(* lines 621-622: typeof x === 'string' ? x : String(x || '') *)
SafeString(v) ==
    IF v.type = "string" THEN v
    ELSE JsString(IF v.type = "undefined" THEN <<>> ELSE v.words)

(* line 687: text.toLowerCase() throws a TypeError on a value that has no
   such method *)
Throws(v) == v.type # "string"

(* line 688 *)
SearchWords(v) == SelectSeq(v.words, LAMBDA w : WordLength(w) > 3)

(* lines 690-709: the loop over the words *)
RECURSIVE MatchScore(_, _, _, _)
MatchScore(file, words, pathWeight, contentWeight) ==
    IF words = <<>> THEN 0
    ELSE (IF Head(words) \in file.pathWords THEN pathWeight ELSE 0)
         + contentWeight * Min(file.matches[Head(words)], 10)
         + MatchScore(file, Tail(words), pathWeight, contentWeight)

(* lines 681-712 *)
CalculateWordMatchScore(file, v, pathWeight, contentWeight) ==
    MatchScore(file, SearchWords(v), pathWeight, contentWeight)

(* lines 721-722: allTasks.filter(t => t !== currentTask).slice(0, 5) *)
OtherTasks(allTasks, currentTask) ==
    LET others == SelectSeq(allTasks, LAMBDA t : t # currentTask)
    IN  SubSeq(others, 1, Min(Len(others), 5))

RECURSIVE SubTaskScore(_, _)
SubTaskScore(file, subTasks) ==
    IF subTasks = <<>> THEN 0
    ELSE CalculateWordMatchScore(file, Head(subTasks), 10, 3)
         + SubTaskScore(file, Tail(subTasks))

(* lines 733-750 *)
PathBonus(file) ==
    (IF file.ext \in {"ts", "tsx"} THEN 10 ELSE 0)
    + (IF file.ext \in {"js", "jsx"} THEN 8 ELSE 0)
    + (IF "api" \in file.dirs THEN 15 ELSE 0)
    + (IF "components" \in file.dirs THEN 10 ELSE 0)
    + (IF "pages" \in file.dirs \/ "app" \in file.dirs THEN 10 ELSE 0)
    + (IF "lib" \in file.dirs \/ "utils" \in file.dirs THEN 10 ELSE 0)

(* mutant: the score is returned as summed *)
ClampNever(score) == score

(* line 753: Math.min(Math.max(score, 0), 1) *)
Clamp(score) == Min(Max(score, 0), Scale)

(* lines 664-756; threw when a toLowerCase() call of line 687 throws *)
CalculateRelevanceScore(file, currentTask, allTasks, projectDetail, evidence) ==
    LET subTasks == OtherTasks(allTasks, currentTask)
        threw == \/ Throws(currentTask)
                 \/ \E k \in 1..Len(subTasks) : Throws(subTasks[k])
                 \/ Throws(projectDetail)
                 \/ Throws(evidence)
    IN  IF threw THEN [threw |-> TRUE, score |-> 0]
        ELSE [threw |-> FALSE,
              score |-> Clamp(CalculateWordMatchScore(file, currentTask, 20, 5)
                              + SubTaskScore(file, subTasks)
                              + CalculateWordMatchScore(file, projectDetail, 5, 2)
                              + CalculateWordMatchScore(file, evidence, 40, 10)
                              + PathBonus(file))]

(* lines 599-659 *)
GetRelevantFilesForTask(args) ==
    LET safeTasks == IF args.tasks.isArray THEN args.tasks.items ELSE <<>>
        safeEvidence == SafeString(args.evidence)
        safeProjectDetail == SafeString(args.projectDetail)
        scored == [k \in 1..Len(args.files) |->
                     CalculateRelevanceScore(args.files[k], args.currentTask,
                                             safeTasks, safeProjectDetail, safeEvidence)]
    IN  IF \E k \in 1..Len(args.files) : scored[k].threw
        THEN [status |-> "threw", files |-> <<>>]
        ELSE [status |-> "returned",
              files |-> SortByRelevance(
                          [k \in 1..Len(args.files) |->
                             [name |-> args.files[k].name,
                              relevance |-> scored[k].score]])]

InitScore ==
    /\ scoreArgs \in [files : ScoreFileLists(MaxScoreFiles),
                       currentTask : CurrentTasks,
                       tasks : TaskLists,
                       projectDetail : ProjectDetails,
                       evidence : Evidences]
    /\ scoreResult = [status |-> "unset", files |-> <<>>]
    /\ PartitionerIdle /\ OrchIdle /\ ExtractorIdle /\ RunsIdle /\ PayloadIdle

(* getRelevantFilesForTask is called and returns or throws *)
ScoreFiles ==
    /\ scoreResult.status = "unset"
    /\ scoreResult' = GetRelevantFilesForTask(scoreArgs)
    /\ UNCHANGED <<scoreArgs, bvars, ovars, xvars, cvars, pvars>>

NextScore == ScoreFiles

SpecScore == InitScore /\ [][NextScore]_vars

-----------------------------------------------------------------------------
(* One iteration of the batch loop with the request payload: SpecPayload *)
(* A file of the batch is a record [name, contentLen, relevance]: name    *)
(* makes the path unique, contentLen is content.length, the content has   *)
(* no character that JSON.stringify escapes. An entry of the payload is a *)
(* record [name, size, relevance], size being the length of the entry's   *)
(* JSON serialization.                                                     *)

MaxPayloadFiles == 7

MaxTotalChars == 100000     \* const MAX_TOTAL_CHARS
MaxFileSize == 15000        \* const MAX_FILE_SIZE

(* {"path":"...","content":"...","relevance":0.9} around the content:
   37 characters of keys and punctuation, a path of 10, a relevance of 3 *)
EntryOverhead == 50

ContentLengths == { 14000, 20000 }

PayloadBatches(n) ==
    UNION { { [k \in 1..m |-> [name |-> k, contentLen |-> c[k], relevance |-> r[k]]] :
                c \in [1..m -> ContentLengths], r \in [1..m -> Relevances] } :
            m \in 1..n }

(* String(n).length *)
RECURSIVE Digits(_)
Digits(n) == IF n < 10 THEN 1 ELSE 1 + Digits(n \div 10)

(* lines 146-156: the length of truncateContent(content, maxLength) once
   serialized; the marker has 24 characters besides the number, and its 4
   newlines are escaped into 2 characters each *)
TruncatedJsonLength(contentLen, maxLength) ==
    IF contentLen <= maxLength THEN contentLen
    ELSE LET headSize == (maxLength * 6) \div 10
             tailSize == (maxLength * 4) \div 10
         IN  headSize + 24 + Digits(contentLen - headSize - tailSize) + 4 + tailSize

(* lines 159-163 *)
ProcessedEntry(file) ==
    [name |-> file.name,
     size |-> EntryOverhead + TruncatedJsonLength(file.contentLen, MaxFileSize),
     relevance |-> file.relevance]

(* line 169 *)
OverTotal(entries) == JsonArraySize(entries) > MaxTotalChars /\ Len(entries) > 1

InitPayload ==
    /\ batchFiles \in PayloadBatches(MaxPayloadFiles)
    /\ payload = <<>>
    /\ paypc = "start"
    /\ pushedPaths = <<>>
    /\ PartitionerIdle /\ OrchIdle /\ ExtractorIdle /\ ScorerIdle /\ RunsIdle

(* lines 680-705 and 126-164: evaluateCode(batchParams) sorts the batch's
   files by relevance and truncates their contents *)
TruncateFiles ==
    /\ paypc = "start"
    /\ payload' = [k \in 1..Len(batchFiles) |->
                     ProcessedEntry(SortByRelevance(batchFiles)[k])]
    /\ paypc' = "trim"
    /\ UNCHANGED <<batchFiles, pushedPaths, bvars, ovars, xvars, svars, cvars>>

(* mutant: the most relevant entry is the one removed *)
PopMostRelevant ==
    /\ paypc = "trim"
    /\ OverTotal(payload)
    /\ payload' = Tail(payload)
    /\ UNCHANGED <<batchFiles, paypc, pushedPaths, bvars, ovars, xvars, svars, cvars>>

(* lines 169-173: one turn of the while loop *)
PopLeastRelevant ==
    /\ paypc = "trim"
    /\ OverTotal(payload)
    /\ payload' = SubSeq(payload, 1, Len(payload) - 1)
    /\ UNCHANGED <<batchFiles, paypc, pushedPaths, bvars, ovars, xvars, svars, cvars>>

(* lines 175-279: the loop is over, the request goes out with the payload *)
SendPayload ==
    /\ paypc = "trim"
    /\ ~OverTotal(payload)
    /\ paypc' = "sent"
    /\ UNCHANGED <<batchFiles, payload, pushedPaths, bvars, ovars, xvars, svars, cvars>>

(* lines 705-711: evaluateCode returned, the batch's paths are appended to
   context.processedFiles *)
PushProcessedFiles ==
    /\ paypc = "sent"
    /\ pushedPaths' = [k \in 1..Len(batchFiles) |-> batchFiles[k].name]
    /\ paypc' = "pushed"
    /\ UNCHANGED <<batchFiles, payload, bvars, ovars, xvars, svars, cvars>>

(* lines 845-866: evaluateCode threw, nothing is appended *)
PayloadCallFails ==
    /\ paypc = "sent"
    /\ paypc' = "failed"
    /\ UNCHANGED <<batchFiles, payload, pushedPaths, bvars, ovars, xvars, svars, cvars>>

NextPayload ==
    \/ TruncateFiles
    \/ PopLeastRelevant
    \/ SendPayload
    \/ PushProcessedFiles
    \/ PayloadCallFails

SpecPayload == InitPayload /\ [][NextPayload]_vars

-----------------------------------------------------------------------------
(* Properties of createSmartFileBatches *)

RECURSIVE Flatten(_)
Flatten(bs) == IF bs = <<>> THEN <<>> ELSE Head(bs) \o Flatten(Tail(bs))

Occurrences(s, x) == Cardinality({ p \in 1..Len(s) : s[p] = x })

(* C1: the returned batches partition the input: every input file is in
   exactly one batch, and the batches hold nothing but the input files *)
C1_PartitionExact ==
    bpc = "done" =>
        /\ Len(Flatten(outBatches)) = Len(files)
        /\ \A k \in 1..Len(files) : Occurrences(Flatten(outBatches), files[k]) = 1

(* a 3-file input returned as several batches, one of them holding 2 files *)
C1_Witness ==
    /\ bpc = "done"
    /\ Len(files) = 3
    /\ Len(outBatches) >= 2
    /\ \E b \in 1..Len(outBatches) : Len(outBatches[b]) = 2
    /\ \A k \in 1..Len(files) : Occurrences(Flatten(outBatches), files[k]) = 1

(* C2: every returned batch has a JSON serialization of length <= B, except
   a batch of exactly one file whose own serialization is longer than B *)
C2_BudgetRespected ==
    bpc = "done" =>
        \A b \in 1..Len(outBatches) :
            \/ JsonArraySize(outBatches[b]) <= maxBatchSize
            \/ (Len(outBatches[b]) = 1 /\ outBatches[b][1].size > maxBatchSize)

(* C3: no returned batch is empty *)
C3_BatchesNonEmpty ==
    bpc = "done" => \A b \in 1..Len(outBatches) : Len(outBatches[b]) > 0

(* s is an initial segment of t *)
IsPrefixOf(s, t) == Len(s) <= Len(t) /\ SubSeq(t, 1, Len(s)) = s

(* the directories of the input *)
InputDirs == { files[k].dir : k \in 1..Len(files) }

(* the serialized size of the group of directory d, and whether it is at
   most 0.8 * B *)
DirGroupSize(d) == JsonArraySize(SelectSeq(files, LAMBDA f : f.dir = d))

SmallDirectory(d) == 10 * DirGroupSize(d) <= 8 * maxBatchSize

(* every input file of directory d is in the list fs *)
HoldsDirectory(fs, d) ==
    \A k \in 1..Len(files) :
        files[k].dir = d => \E p \in 1..Len(fs) : fs[p] = files[k]

(* C28: when the input does not fit in one batch, the files of a directory
   whose group is at most 0.8 * B are in one group once the directory is
   placed, in one group after compaction and in one returned batch; two
   such directories whose sizes add up to more than B give 2 batches or
   more *)
C28_SmallDirectoriesKeptWhole ==
    /\ bpc \in {"dirs", "extract"} =>
          \A k \in 1..(dirIndex - 1) :
              SmallDirectory(DirKeys(files)[k]) =>
                  \E g \in 1..Len(fileGroups) :
                      HoldsDirectory(fileGroups[g].files, DirKeys(files)[k])
    /\ (bpc = "done" /\ JsonArraySize(files) > maxBatchSize) =>
          /\ \A d \in InputDirs :
                SmallDirectory(d) =>
                    \E b \in 1..Len(outBatches) : HoldsDirectory(outBatches[b], d)
          /\ \A d1, d2 \in InputDirs :
                ( /\ d1 # d2
                  /\ SmallDirectory(d1) /\ SmallDirectory(d2)
                  /\ DirGroupSize(d1) + DirGroupSize(d2) > maxBatchSize )
                => Len(outBatches) >= 2

(* batches were returned for an input with a 2-file directory and another
   directory, both at most 0.8 * B and together larger than B *)
C28_Witness ==
    /\ bpc = "done"
    /\ JsonArraySize(files) > maxBatchSize
    /\ \E d1, d2 \in InputDirs :
          /\ d1 # d2
          /\ SmallDirectory(d1) /\ SmallDirectory(d2)
          /\ DirGroupSize(d1) + DirGroupSize(d2) > maxBatchSize
          /\ Cardinality({ k \in 1..Len(files) : files[k].dir = d1 }) = 2
          /\ \E b \in 1..Len(outBatches) : HoldsDirectory(outBatches[b], d1)
    /\ Len(outBatches) >= 2

(* C29: an input whose serialization is at most B long is returned as one
   batch that is the input list; several batches are returned only for an
   input longer than B *)
C29_OneBatchWhenInputFits ==
    bpc = "done" =>
        /\ JsonArraySize(files) <= maxBatchSize => outBatches = << files >>
        /\ Len(outBatches) > 1 => JsonArraySize(files) > maxBatchSize

(* a 3-file input that fits, its directories interleaved, came back as the
   one batch *)
C29_Witness ==
    /\ bpc = "done"
    /\ Len(files) = 3
    /\ files[1].dir = files[3].dir
    /\ files[1].dir # files[2].dir
    /\ JsonArraySize(files) <= maxBatchSize
    /\ outBatches = << files >>

(* the affinity of a group for directory d as C30 words it: 1 if the group
   holds files of d, and 2 for every directory with files in the group that
   is a prefix of d or that d is a prefix of *)
GroupDirs(group) == { group.files[k].dir : k \in 1..Len(group.files) }

Affinity(group, d) ==
    (IF d \in GroupDirs(group) THEN 1 ELSE 0)
    + 2 * Cardinality({ e \in GroupDirs(group) :
                          IsPrefixOf(e, d) \/ IsPrefixOf(d, e) })

(* C30: a directory of at most 0.8 * B goes to a group that has room for
   it, one with the highest affinity among those, and among those of
   highest affinity one with the smallest size; a new group is opened only
   when no group has room *)
C30_BestGroupChosen ==
    [][ PlaceWholeDirectory =>
          LET d == DirKeys(files)[dirIndex]
              dirFiles == SelectSeq(files, LAMBDA f : f.dir = d)
              dirSize == DirGroupSize(d)
              room == { i \in 1..Len(fileGroups) :
                          fileGroups[i].totalSize + dirSize <= maxBatchSize }
          IN  IF room = {}
              THEN /\ Len(fileGroups') = Len(fileGroups) + 1
                   /\ fileGroups'[Len(fileGroups')].files = dirFiles
                   /\ \A j \in 1..Len(fileGroups) : fileGroups'[j] = fileGroups[j]
              ELSE /\ Len(fileGroups') = Len(fileGroups)
                   /\ \E i \in room :
                         /\ fileGroups'[i].files = fileGroups[i].files \o dirFiles
                         /\ fileGroups'[i].totalSize = fileGroups[i].totalSize + dirSize
                         /\ \A j \in 1..Len(fileGroups) :
                               j # i => fileGroups'[j] = fileGroups[j]
                         /\ \A j \in room :
                               /\ Affinity(fileGroups[j], d) <= Affinity(fileGroups[i], d)
                               /\ Affinity(fileGroups[j], d) = Affinity(fileGroups[i], d)
                                    => fileGroups[i].totalSize <= fileGroups[j].totalSize
        ]_vars

(* the third directory went to the second group, next to a directory it is
   related to, although the first group had room for it and was no larger *)
C30_Witness ==
    /\ bpc = "dirs"
    /\ dirIndex = 4
    /\ Len(fileGroups) = 2
    /\ LET d == DirKeys(files)[3]
       IN  /\ SmallDirectory(d)
           /\ HoldsDirectory(fileGroups[2].files, d)
           /\ Cardinality(GroupDirs(fileGroups[2])) = 2
           /\ Affinity([files |-> SubSeq(fileGroups[2].files, 1, 1)], d) = 2
           /\ fileGroups[1].totalSize + DirGroupSize(d) <= maxBatchSize
           /\ fileGroups[1].totalSize <= fileGroups[2].totalSize - DirGroupSize(d)

(* the files and the size of every group, without the directory tallies *)
Contents(groups) ==
    [k \in 1..Len(groups) |->
        [files |-> groups[k].files, totalSize |-> groups[k].totalSize]]

(* the arrangements of fs in which relevance never increases *)
DescendingOrders(fs) ==
    { o \in { [k \in 1..Len(fs) |-> fs[p[k]]] : p \in Permutations(1..Len(fs)) } :
        \A k \in 1..(Len(o) - 1) : o[k].relevance >= o[k + 1].relevance }

(* first-fit as C31 words it: the file goes to the lowest-index group with
   room for it, to a new group when there is none *)
FirstFitPlace(contents, f, B) ==
    LET room == { i \in 1..Len(contents) : contents[i].totalSize + f.size <= B }
    IN  IF room = {}
        THEN Append(contents, [files |-> <<f>>, totalSize |-> f.size])
        ELSE LET i == CHOOSE x \in room : \A y \in room : x <= y
             IN  [contents EXCEPT ![i] =
                    [files |-> Append(@.files, f), totalSize |-> @.totalSize + f.size]]

RECURSIVE FirstFitAll(_, _, _)
FirstFitAll(contents, order, B) ==
    IF order = <<>> THEN contents
    ELSE FirstFitAll(FirstFitPlace(contents, Head(order), B), Tail(order), B)

(* C31: the files of a directory larger than 0.8 * B are placed one at a
   time in an order of descending relevance, each by first-fit *)
C31_FirstFitByRelevance ==
    [][ SplitLargeDirectory =>
          LET d == DirKeys(files)[dirIndex]
              dirFiles == SelectSeq(files, LAMBDA f : f.dir = d)
          IN  /\ ~SmallDirectory(d)
              /\ \E order \in DescendingOrders(dirFiles) :
                    Contents(fileGroups') =
                        FirstFitAll(Contents(fileGroups), order, maxBatchSize)
        ]_vars

(* a directory larger than 0.8 * B was split over 2 groups or more, and its
   second input file, more relevant than the first, leads the first group *)
C31_Witness ==
    /\ bpc = "dirs"
    /\ dirIndex = 2
    /\ Len(files) = 3
    /\ ~SmallDirectory(files[1].dir)
    /\ files[2].dir = files[1].dir
    /\ files[1].relevance < files[2].relevance
    /\ Len(fileGroups) >= 2
    /\ fileGroups[1].files # <<>>
    /\ fileGroups[1].files[1] = files[2]

-----------------------------------------------------------------------------
(* Properties of evaluateCode and evaluateCodeInBatches *)

(* the request of the running call fails for the third time *)
ThirdFailure == RequestFails /\ retryCount = 2

FinalBatchSucceeded == lastBatchFinal.kind # "null"

(* C4: no evaluateCode call, of a batch or of the summary, sends more than
   3 requests to the model *)
C4_RetryCeiling == invocations <= 3

(* a call that failed 3 times and threw after its third request *)
C4_Witness ==
    /\ pc = "done"
    /\ outcome = "threw"
    /\ retryCount = 3
    /\ invocations = 3

(* C5 as claimed: when the call of a non-final batch fails 3 times, the batch
   is recorded with success = false and its error, and the next batch's
   call is sent *)
C5_FailedBatchRecorded ==
    [][ (ThirdFailure /\ callKind = "batch" /\ batchIdx < Len(batches))
        => /\ context'.batchResults =
                Append(context.batchResults, BatchRecord(batchIdx, NullResult, FALSE))
           /\ batchIdx' = batchIdx + 1
           /\ callKind' = "batch"
           /\ pc' = "invoking"
           /\ outcome' = "none" ]_vars

(* C5 amended: the same outside development mode, where evaluateCode throws;
   in development mode it returns the mock result and the batch is recorded
   as a success *)
C5_FailedBatchRecordedOutsideDev ==
    [][ (ThirdFailure /\ callKind = "batch" /\ batchIdx < Len(batches))
        => IF env.dev
           THEN /\ context'.batchResults =
                     Append(context.batchResults, BatchRecord(batchIdx, MockResult, TRUE))
                /\ outcome' = "none"
           ELSE /\ context'.batchResults =
                     Append(context.batchResults, BatchRecord(batchIdx, NullResult, FALSE))
                /\ batchIdx' = batchIdx + 1
                /\ callKind' = "batch"
                /\ pc' = "invoking"
                /\ outcome' = "none" ]_vars

(* batch 1 failed and is recorded as failed while batch 2's call is running *)
C5_Witness ==
    /\ pc = "invoking"
    /\ callKind = "batch"
    /\ batchIdx = 2
    /\ ~env.dev
    /\ Len(context.batchResults) = 1
    /\ ~context.batchResults[1].success
    /\ context.batchResults[1].error = "Error"

(* C6: outside development and mock mode, a third failure of the final
   batch's call, or of the single call of a one-batch run, makes
   evaluateCodeInBatches throw without a verdict *)
C6_FinalFailureIsFatal ==
    [][ (/\ ThirdFailure
         /\ ~env.dev
         /\ \/ callKind = "single"
            \/ (callKind = "batch" /\ batchIdx = Len(batches)))
        => /\ pc' = "done"
           /\ outcome' = "threw"
           /\ verdict' = NullResult ]_vars

(* the final batch of a run failed after an earlier batch had succeeded *)
C6_Witness ==
    /\ pc = "done"
    /\ outcome = "threw"
    /\ callKind = "batch"
    /\ Len(batches) >= 2
    /\ batchIdx = Len(batches)
    /\ context.batchResults[1].success
    /\ lastResult.kind # "null"
    /\ verdict = NullResult

(* C7 as claimed: when the summary call fails its 3 attempts the run returns
   the final batch's own result *)
C7_SummaryFailureFallsBack ==
    [][ (ThirdFailure /\ callKind = "summary")
        => /\ pc' = "done"
           /\ outcome' = "returned"
           /\ verdict' = lastBatchFinal ]_vars

(* C7 amended: the run never fails on a failed summary call; outside
   development mode it returns the final batch's own result, in development
   mode evaluateCode returns the mock result, which becomes the verdict *)
C7_SummaryFailureFallsBackOutsideDev ==
    [][ (ThirdFailure /\ callKind = "summary")
        => /\ pc' = "done"
           /\ outcome' = "returned"
           /\ verdict' = IF env.dev THEN MockResult ELSE lastBatchFinal ]_vars

(* a run that returned the final batch's result after 3 failed summary requests *)
C7_Witness ==
    /\ pc = "done"
    /\ outcome = "returned"
    /\ callKind = "summary"
    /\ retryCount = 3
    /\ ~env.dev
    /\ summaryCalls = 1
    /\ verdict = lastBatchFinal
    /\ verdict.kind \in {"json", "text"}

(* C8: every run ends, either returning a verdict or throwing; it never
   returns without a verdict *)
C8_RunTerminates ==
    /\ <>(pc = "done")
    /\ [](pc = "done" =>
            \/ outcome = "threw"
            \/ (outcome = "returned" /\ verdict.kind \in {"json", "text", "mock"}))

(* a finished multi-batch run that returned a verdict although a batch failed *)
C8_Witness ==
    /\ pc = "done"
    /\ outcome = "returned"
    /\ verdict.kind \in {"json", "text"}
    /\ Len(batches) >= 2
    /\ \E k \in 1..Len(context.batchResults) : ~context.batchResults[k].success

(* C9: keyInsights never holds more than 5 entries *)
C9_InsightCap == Len(context.keyInsights) <= 5

(* the list is full and an insight of a successful non-final batch was cut *)
C9_Witness ==
    /\ Len(context.keyInsights) = 5
    /\ \E k \in 1..Len(context.batchResults) :
          LET br == context.batchResults[k]
          IN  /\ br.success
              /\ br.batch < Len(batches)
              /\ br.result.points >= 1
              /\ ~br.result.nullEntry
              /\ \A p \in 1..5 : context.keyInsights[p] # <<br.batch, "summary", 1>>

EarlierBatchSucceeded ==
    \E k \in 1..Len(context.batchResults) :
        context.batchResults[k].success /\ context.batchResults[k].batch < Len(batches)

(* C10 as claimed: a finished run of 2 or more batches whose final batch
   succeeded has issued exactly one summary call *)
C10_OneSummaryCall ==
    (pc = "done" /\ Len(batches) >= 2 /\ FinalBatchSucceeded) => summaryCalls = 1

(* C10 amended: the summary call is issued once, after the final batch, when
   the final batch and at least one earlier batch succeeded, and not at all
   when every earlier batch failed *)
C10_OneSummaryCallIfEarlierSuccess ==
    /\ summaryCalls \in {0, 1}
    /\ summaryCalls = 1 => (FinalBatchSucceeded /\ batchIdx = Len(batches))
    /\ (Len(batches) >= 2 /\ FinalBatchSucceeded)
          => summaryCalls = (IF EarlierBatchSucceeded THEN 1 ELSE 0)

(* a finished 3-batch run with one failed and one successful earlier batch
   and one summary call *)
C10_Witness ==
    /\ pc = "done"
    /\ Len(batches) = 3
    /\ FinalBatchSucceeded
    /\ summaryCalls = 1
    /\ \E k \in 1..2 : ~context.batchResults[k].success
    /\ \E k \in 1..2 : context.batchResults[k].success

(* C11: a run whose partition is exactly one batch makes the single
   evaluateCode call on the original request: it never enters the batch loop
   (no batch prompt), leaves the context empty, makes no summary call, and
   what it returns is what that call returned *)
C11_SingleBatchShortcut ==
    (Len(batches) = 1 /\ pc \in {"invoking", "backoff", "done"}) =>
        /\ callKind = "single"
        /\ batchIdx = 0
        /\ context = EmptyContext
        /\ lastResult = NullResult
        /\ summaryCalls = 0
        /\ (pc = "done" /\ outcome = "returned") =>
              \/ verdict = MockResult
              \/ \E resp \in Responses : verdict = ResultOf(resp, "single", 0)

(* a one-batch run of two files that returned the parsed reply of its call *)
C11_Witness ==
    /\ pc = "done"
    /\ outcome = "returned"
    /\ Len(batches) = 1
    /\ Len(batches[1]) = 2
    /\ callKind = "single"
    /\ verdict.kind = "json"
    /\ verdict.call = "single"
    /\ context = EmptyContext

(* the running call's request succeeds with text that is not JSON *)
TextReply ==
    /\ RequestSucceeds
    /\ \E resp \in Responses :
          /\ ~resp.json
          /\ CallReturned(ResultOf(resp, callKind, batchIdx), retryCount)

(* C12: a successful request whose text is not JSON ends the call without
   a throw and without another request: the call returns the wrapper of
   the text, and in the batch loop the batch is recorded as a success *)
C12_UnparsedReplyWrapped ==
    [][ TextReply =>
          \E resp \in Responses :
              LET wrapped == ResultOf(resp, callKind, batchIdx)
              IN  /\ ~resp.json
                  /\ wrapped.kind = "text"
                  /\ outcome' # "threw"
                  /\ pc' # "backoff"
                  /\ ~(pc' = "invoking" /\ callKind' = callKind /\ batchIdx' = batchIdx)
                  /\ callKind = "batch" =>
                        /\ lastResult' = wrapped
                        /\ context'.batchResults =
                              Append(context.batchResults,
                                     BatchRecord(batchIdx, wrapped, TRUE))
                  /\ callKind \in {"single", "summary"} =>
                        (pc' = "done" /\ outcome' = "returned" /\ verdict' = wrapped)
      ]_vars

(* batch 1's reply was not JSON on the first request; it is recorded as a
   success and batch 2's call is running *)
C12_Witness ==
    /\ pc = "invoking"
    /\ callKind = "batch"
    /\ batchIdx = 2
    /\ Len(context.batchResults) = 1
    /\ context.batchResults[1].success
    /\ context.batchResults[1].result.kind = "text"
    /\ lastResult.kind = "text"

(* the paths of the batches recorded as successes in results, in order *)
RECURSIVE PathsOfSuccesses(_)
PathsOfSuccesses(results) ==
    IF results = <<>> THEN <<>>
    ELSE (IF Head(results).success THEN PathsOf(batches[Head(results).batch]) ELSE <<>>)
         \o PathsOfSuccesses(Tail(results))

(* C14: the batches of a run are processed one after the other in index
   order: while batch i's call is running (or waiting to retry) exactly the
   batches 1..i-1 are recorded in the context, with the paths of the
   successful ones, and the loop moves from batch i to batch i+1 only with
   batch i recorded *)
C14_SequentialBatches ==
    /\ []( (callKind = "batch" /\ pc \in {"invoking", "backoff", "cooldown"}) =>
             /\ batchIdx \in 1..Len(batches)
             /\ Len(context.batchResults) =
                   (IF pc = "cooldown" THEN batchIdx ELSE batchIdx - 1)
             /\ \A k \in 1..Len(context.batchResults) :
                   context.batchResults[k].batch = k
             /\ context.processedFiles = PathsOfSuccesses(context.batchResults) )
    /\ [][ /\ batchIdx' \in {batchIdx, batchIdx + 1}
           /\ (batchIdx >= 1 /\ batchIdx' = batchIdx + 1) =>
                 /\ pc' = "invoking"
                 /\ retryCount' = 0
                 /\ invocations' = 1
                 /\ Len(context'.batchResults) = batchIdx
                 /\ context'.batchResults[batchIdx].batch = batchIdx ]_vars

(* batch 3's call is running after batch 1 failed and batch 2 succeeded *)
C14_Witness ==
    /\ pc = "invoking"
    /\ callKind = "batch"
    /\ batchIdx = 3
    /\ Len(context.batchResults) = 2
    /\ ~context.batchResults[1].success
    /\ context.batchResults[2].success
    /\ context.processedFiles = PathsOf(batches[2])

(* C18: what a run of 2 or more batches returns is what its summary call
   returned or what the final batch's own call returned, never what the
   call of an earlier batch returned *)
C18_VerdictFromFinalStep ==
    (pc = "done" /\ outcome = "returned" /\ Len(batches) >= 2) =>
        /\ FinalBatchSucceeded
        /\ lastBatchFinal.call = "batch" => lastBatchFinal.batch = Len(batches)
        /\ \/ verdict = lastBatchFinal
           \/ /\ callKind = "summary"
              /\ summaryCalls = 1
              /\ verdict.call = "summary" \/ (env.dev /\ verdict = MockResult)
        /\ verdict.call = "batch" => verdict.batch = Len(batches)

(* a 3-batch run returned its summary call's result, which differs from
   the result of its successful first batch *)
C18_Witness ==
    /\ pc = "done"
    /\ outcome = "returned"
    /\ Len(batches) = 3
    /\ verdict.call = "summary"
    /\ lastResult = verdict
    /\ context.batchResults[1].success
    /\ context.batchResults[1].result.kind = "json"
    /\ context.batchResults[1].result # verdict

(* the result of the most recent batch recorded with success, null if none *)
LatestSuccess(results) ==
    LET good == SelectSeq(results, LAMBDA br : br.success)
    IN  IF good = <<>> THEN NullResult ELSE good[Len(good)].result

(* C21 as stated: after each batch lastResult is that batch's result if the
   batch succeeded and null if it failed *)
C21_LastResultOfLastBatch ==
    (callKind = "batch" /\ context.batchResults # <<>>) =>
        LET last == context.batchResults[Len(context.batchResults)]
        IN  lastResult = IF last.success THEN last.result ELSE NullResult

(* C21 amended: after each batch lastResult is that batch's result if the
   batch succeeded; a failed batch leaves it as it was, so that it holds the
   result of the most recent successful batch, and null only if no batch
   has succeeded *)
C21_LastResultOfLatestSuccess ==
    (callKind = "batch") => lastResult = LatestSuccess(context.batchResults)

(* batch 1 succeeded, batch 2 failed, and lastResult is batch 1's result *)
C21_Witness ==
    /\ callKind = "batch"
    /\ Len(context.batchResults) >= 2
    /\ context.batchResults[1].success
    /\ ~context.batchResults[2].success
    /\ lastResult = context.batchResults[1].result
    /\ lastResult # NullResult

(* the file paths of batch i, in the order of the batch *)
OwnPaths(i) == [k \in 1..Len(batches[i]) |-> <<batches[i][k].dir, batches[i][k].name>>]

(* C22: processedFiles only grows at its end: a step that records a
   successful batch appends exactly that batch's paths in batch order, a
   step that records a failed batch and every other step leave the list as
   it was *)
C22_ProcessedPathsAppendOnly ==
    [][ /\ IsPrefixOf(context.processedFiles, context'.processedFiles)
        /\ IF Len(context'.batchResults) = Len(context.batchResults) + 1
           THEN LET rec == context'.batchResults[Len(context'.batchResults)]
                IN  /\ rec.batch = batchIdx
                    /\ context'.processedFiles =
                         IF rec.success
                         THEN context.processedFiles \o OwnPaths(batchIdx)
                         ELSE context.processedFiles
           ELSE context'.processedFiles = context.processedFiles ]_vars

(* batches 1 and 3 of a 3-batch run succeeded and batch 2 failed: the list
   holds the paths of batch 1 followed by those of batch 3 *)
C22_Witness ==
    /\ Len(batches) = 3
    /\ Len(context.batchResults) = 3
    /\ context.batchResults[1].success
    /\ ~context.batchResults[2].success
    /\ context.batchResults[3].success
    /\ OwnPaths(2) # <<>>
    /\ context.processedFiles = OwnPaths(1) \o OwnPaths(3)

(* C23: keyInsights only grows at its end: its value before a step is an
   initial segment of its value after the step, and once it holds 5 entries
   no step changes it *)
C23_KeyInsightsPrefixStable ==
    [][ /\ IsPrefixOf(context.keyInsights, context'.keyInsights)
        /\ Len(context.keyInsights) = 5 =>
               context'.keyInsights = context.keyInsights ]_vars

(* the list is full, and a successful non-final batch whose result had
   checkpoints to extract contributed nothing to it *)
C23_Witness ==
    /\ Len(context.keyInsights) = 5
    /\ \E k \in 1..Len(context.batchResults) :
          LET br == context.batchResults[k]
          IN  /\ br.success
              /\ br.batch < Len(batches)
              /\ br.result.checkpoints > 0
              /\ ~br.result.nullEntry
              /\ \A j \in 1..5 : context.keyInsights[j][1] # br.batch

(* C24: a step changes keyInsights only if it records the success of a
   batch that is not the final one; a step that records a failed batch or
   the final batch, and every step of the summary call, leave it unchanged *)
C24_InsightsFromNonFinalSuccess ==
    [][ /\ context'.keyInsights # context.keyInsights =>
               /\ callKind = "batch"
               /\ batchIdx < Len(batches)
               /\ Len(context'.batchResults) = Len(context.batchResults) + 1
               /\ context'.batchResults[Len(context'.batchResults)].success
               /\ context'.batchResults[Len(context'.batchResults)].batch = batchIdx
        /\ callKind = "summary" => context'.keyInsights = context.keyInsights ]_vars

(* a 3-batch run is over after its summary call: batch 1 succeeded and gave
   3 insights, batch 2 failed, the final batch succeeded with checkpoints in
   its result, and the list still holds batch 1's 3 entries only *)
C24_Witness ==
    /\ pc = "done"
    /\ callKind = "summary"
    /\ Len(batches) = 3
    /\ context.batchResults[1].success
    /\ ~context.batchResults[2].success
    /\ context.batchResults[3].success
    /\ context.batchResults[3].result.checkpoints > 0
    /\ ~context.batchResults[3].result.nullEntry
    /\ Len(context.keyInsights) = 3
    /\ \A j \in 1..3 : context.keyInsights[j][1] = 1

(* a model call of a multi-batch run other than the first batch's call is
   in progress *)
LaterCallRunning ==
    /\ pc \in {"invoking", "backoff"}
    /\ \/ callKind = "batch" /\ batchIdx > 1
       \/ callKind = "summary"

(* the prompt of the running call names path p *)
CarriesPath(p) ==
    \E k \in 1..Len(callParams.projectDetail.processedFiles) :
        callParams.projectDetail.processedFiles[k] = p

(* the prompt of the running call holds insight x: in its list of insights,
   or, for a piece of a batch's summary, inside that batch's summary in an
   analysis section *)
CarriesInsight(x) ==
    \/ \E k \in 1..Len(callParams.projectDetail.keyInsights) :
          callParams.projectDetail.keyInsights[k] = x
    \/ /\ x[2] = "summary"
       /\ \E k \in 1..Len(callParams.projectDetail.analyses) :
             /\ callParams.projectDetail.analyses[k].batch = x[1]
             /\ callParams.projectDetail.analyses[k].summary >= x[3]

(* C25 as stated: every call after the first batch's call, the summary
   call included, carries all of processedFiles and all of keyInsights *)
C25_LaterCallsCarryContext ==
    LaterCallRunning =>
        /\ \A k \in 1..Len(context.processedFiles) : CarriesPath(context.processedFiles[k])
        /\ \A k \in 1..Len(context.keyInsights) : CarriesInsight(context.keyInsights[k])

(* C25 amended: every batch call after the first batch's call, the final
   batch's call included, carries processedFiles and keyInsights as they
   are; the summary call carries processedFiles as it is, and of keyInsights
   only what the summaries of its analysis sections contain *)
C25_BatchCallsCarryContext ==
    LaterCallRunning =>
        /\ callParams.projectDetail.processedFiles = context.processedFiles
        /\ callKind = "batch" =>
               callParams.projectDetail.keyInsights = context.keyInsights
        /\ callKind = "summary" =>
               /\ callParams.projectDetail.keyInsights = <<>>
               /\ \A k \in 1..Len(context.keyInsights) :
                     context.keyInsights[k][2] = "summary" =>
                         CarriesInsight(context.keyInsights[k])

(* the final batch's call of a 3-batch run is in progress with paths and
   insights of earlier batches in its prompt *)
C25_Witness ==
    /\ LaterCallRunning
    /\ callKind = "batch"
    /\ batchIdx = 3
    /\ Len(batches) = 3
    /\ context.processedFiles # <<>>
    /\ Len(context.keyInsights) = 5
    /\ callParams.projectDetail.keyInsights = context.keyInsights

(* the paths of the analysis sections of a prompt, section after section *)
RECURSIVE SectionPaths(_)
SectionPaths(analyses) ==
    IF analyses = <<>> THEN <<>>
    ELSE Head(analyses).files \o SectionPaths(Tail(analyses))

(* C26: the summary call is sent with an empty list of relevant files, and
   the paths its prompt names, in its list of analysed files and in its
   analysis sections, are processedFiles in order *)
C26_SummaryCarriesNoFiles ==
    (callKind = "summary") =>
        /\ callParams.relevantFiles = <<>>
        /\ callParams.projectDetail.processedFiles = context.processedFiles
        /\ SectionPaths(callParams.projectDetail.analyses) = context.processedFiles

(* the summary call of a 3-batch run whose batch 2 failed is in progress:
   the run has files that are not among the paths the prompt names *)
C26_Witness ==
    /\ callKind = "summary"
    /\ pc = "invoking"
    /\ Len(batches) = 3
    /\ ~context.batchResults[2].success
    /\ batches[2] # <<>>
    /\ context.processedFiles # <<>>
    /\ Len(context.processedFiles) < Len(relevantFiles)

(* the batch numbers recorded with success, in order *)
RECURSIVE SuccessfulBatches(_)
SuccessfulBatches(results) ==
    IF results = <<>> THEN <<>>
    ELSE (IF Head(results).success THEN <<Head(results).batch>> ELSE <<>>)
         \o SuccessfulBatches(Tail(results))

(* C27: the summary request has one analysis section for every batch
   recorded with success and none for a failed batch, and what the summary
   call returns is what the run returns *)
C27_SummaryFromSuccesses ==
    /\ [](callKind = "summary" =>
            [k \in 1..Len(callParams.projectDetail.analyses) |->
                callParams.projectDetail.analyses[k].batch]
              = SuccessfulBatches(context.batchResults))
    /\ [][(callKind = "summary" /\ RequestSucceeds) =>
            /\ pc' = "done"
            /\ outcome' = "returned"
            /\ verdict'.call = "summary"
            /\ lastResult' = verdict']_vars

(* a 3-batch run in which only batch 2 failed returned the result of its
   summary call, which was built from batches 1 and 3 *)
C27_Witness ==
    /\ pc = "done"
    /\ outcome = "returned"
    /\ Len(batches) = 3
    /\ SuccessfulBatches(context.batchResults) = <<1, 3>>
    /\ Len(context.batchResults) = 3
    /\ Len(callParams.projectDetail.analyses) = 2
    /\ callParams.projectDetail.analyses[1].batch = 1
    /\ callParams.projectDetail.analyses[2].batch = 3
    /\ verdict.call = "summary"

(* C32: inside one evaluateCode call an attempt other than the first is
   sent only at the end of a wait, a failed attempt is followed by a wait
   exactly when it is the first or the second, a successful attempt is
   followed by none, and a wait ends with the next attempt *)
C32_BackoffBetweenAttempts ==
    [][ /\ (invocations' = invocations + 1 /\ retryCount' > 0) =>
               (pc = "backoff" /\ pc' = "invoking")
        /\ RequestFails => (pc' = "backoff" <=> retryCount < 2)
        /\ RequestSucceeds => pc' # "backoff"
        /\ pc = "backoff" =>
               (pc' = "invoking" /\ invocations' = invocations + 1) ]_vars

(* the second wait of the call of batch 2: two attempts were sent and failed *)
C32_Witness ==
    /\ pc = "backoff"
    /\ callKind = "batch"
    /\ batchIdx = 2
    /\ retryCount = 2
    /\ invocations = 2

(* C33: the call of a batch other than the first is sent only at the end
   of a cooldown wait, whether the batch before it succeeded or failed, and
   no cooldown wait follows the final batch *)
C33_CooldownBetweenBatches ==
    [][ /\ (batchIdx >= 1 /\ batchIdx' = batchIdx + 1) =>
               (pc = "cooldown" /\ pc' = "invoking" /\ callKind' = "batch")
        /\ pc' = "cooldown" => batchIdx' < Len(batches') ]_vars

(* the number of batches of the run whose processing is over *)
FinishedBatches ==
    IF callKind = "summary" \/ pc \in {"cooldown", "done"}
    THEN batchIdx
    ELSE batchIdx - 1

(* C35: in a run of several batches batchResults holds one entry for each
   batch whose processing is over, the k-th entry being that of batch k, so
   that no batch has two entries, one of success and one of failure *)
C35_OneOutcomePerBatch ==
    (callKind \in {"batch", "summary"}) =>
        /\ Len(context.batchResults) = FinishedBatches
        /\ \A k \in 1..Len(context.batchResults) : context.batchResults[k].batch = k
        /\ \A j, k \in 1..Len(context.batchResults) :
              context.batchResults[j].batch = context.batchResults[k].batch => j = k

(* the cooldown after batch 2 of a run of 3 batches or more: batch 1 failed
   and batch 2 succeeded, each with its one entry *)
C35_Witness ==
    /\ pc = "cooldown"
    /\ batchIdx = 2
    /\ Len(context.batchResults) = 2
    /\ context.batchResults[1].batch = 1
    /\ ~context.batchResults[1].success
    /\ context.batchResults[2].batch = 2
    /\ context.batchResults[2].success

(* mock mode as C36 words it: USE_MOCK_DATA is 'true', or the environment
   is development and there is no API key *)
MockMode == env.useMock \/ (env.dev /\ ~env.apiKey)

(* C36: in mock mode evaluateCodeInBatches does not call the partitioner,
   enters no evaluateCode call and sends no request, and what it returns is
   the canned result; an evaluateCode call sends no request and returns
   the canned result *)
C36_MockModeSkipsModel ==
    MockMode =>
        /\ bpc = "idle"
        /\ batches = <<>>
        /\ callKind = "none"
        /\ invocations = 0
        /\ pc = "done" => (outcome = "returned" /\ verdict = MockResult)
        /\ \A r \in DOMAIN runs :
              /\ runs[r].pc = "idle"
              /\ runs[r].requests = 0
              /\ runs[r].result \in {"none", "mock"}

(* a run with USE_MOCK_DATA set, outside development and with an API key,
   whose 3 files would not fit in one batch, returned the canned result *)
C36_Witness ==
    /\ pc = "done"
    /\ env = [dev |-> FALSE, apiKey |-> TRUE, useMock |-> TRUE]
    /\ Len(relevantFiles) = 3
    /\ JsonArraySize(relevantFiles) > MaxBatchChars
    /\ verdict = MockResult
    /\ invocations = 0
    /\ bpc = "idle"

-----------------------------------------------------------------------------
(* Properties of extractJsonFromMarkdown *)

(* the reply is not JSON as a whole and holds no fence *)
ProseAroundObject ==
    /\ ~JsonParses(text)
    /\ \A i \in 1..Len(text) : text[i] # "F"
    /\ JsonMatch(text).found
    /\ JsonParses(JsonMatch(text).capture)

(* C13: the extractor of the model call returns null only when the whole
   text, the first fenced block, the span from the first "{" to the last
   "}" and the repaired span all fail to parse; a reply that is prose
   around a valid {...} span, without a fence, gives the parsed object *)
C13_BraceSpanRecovered ==
    /\ (parsedContent.value # "unset" /\ ProseAroundObject)
          => parsedContent.value = "object"
    /\ (parsedContent.value = "null" /\ JsonMatch(text).found)
          => ~JsonParses(FixJson(JsonMatch(text).capture))

-----------------------------------------------------------------------------
(* Properties of concurrent evaluateCode calls *)

(* C15: concurrent runs do not reach each other through shared state: a
   step of one run never changes the client another run sends with, and
   every request of a run goes out with the client of the run's own
   currentUrlIndex *)
C15_RunsIndependent ==
    /\ [](\A r \in RunIds :
             runs[r].pc = "invoking" => runs[r].usedUrl = runs[r].currentUrlIndex)
    /\ [][ \A r \in RunIds : runs'[r] = runs[r] => openai' = openai ]_vars

(* run 2 sends the first request of a call while run 1, which has failed
   twice, is waiting to retry *)
C15_Witness ==
    /\ runs[1].pc = "backoff"
    /\ runs[1].retryCount = 2
    /\ runs[2].pc = "invoking"
    /\ runs[2].retryCount = 0
    /\ runs[2].usedUrl = 0

(* C20: attempt k of every evaluateCode call goes to endpoint number
   min(k, number of endpoints); with the indices counted from 0 as in the
   code, the request sent after rc failures uses index min(rc, count - 1) *)
C20_EndpointOfAttempt ==
    \A r \in RunIds :
        runs[r].pc = "invoking" =>
            runs[r].usedUrl = Min(runs[r].retryCount, ApiBaseUrlCount - 1)

(* the third request of the second call of a run *)
C20_Witness ==
    \E r \in RunIds :
        /\ runs[r].pc = "invoking"
        /\ runs[r].calls = 2
        /\ runs[r].retryCount = 2
        /\ runs[r].usedUrl = 0

-----------------------------------------------------------------------------
(* Properties of the relevance scorer *)

(* the score of file k of the arguments before line 753 *)
RawScore(k) ==
    LET f == scoreArgs.files[k]
        tasks == IF scoreArgs.tasks.isArray THEN scoreArgs.tasks.items ELSE <<>>
    IN  CalculateWordMatchScore(f, scoreArgs.currentTask, 20, 5)
        + SubTaskScore(f, OtherTasks(tasks, scoreArgs.currentTask))
        + CalculateWordMatchScore(f, SafeString(scoreArgs.projectDetail), 5, 2)
        + CalculateWordMatchScore(f, SafeString(scoreArgs.evidence), 40, 10)
        + PathBonus(f)

(* C16: every relevance the scorer returns lies between 0 and 1 *)
C16_RelevanceInRange ==
    \A k \in 1..Len(scoreResult.files) :
        /\ scoreResult.files[k].relevance >= 0
        /\ scoreResult.files[k].relevance <= Scale

(* two files scored: one whose matches and path bonuses sum to more than 1,
   returned first with relevance 1, and one without any match, returned
   with relevance 0 *)
C16_Witness ==
    /\ scoreResult.status = "returned"
    /\ Len(scoreResult.files) = 2
    /\ scoreResult.files[1].relevance = Scale
    /\ scoreResult.files[2].relevance = 0
    /\ \E k \in 1..2 : RawScore(k) > Scale

(* C17: the scorer never throws: whatever the types of the current task,
   of the entries of the task list, of the project description and of the
   evidence, it returns a score for every file *)
C17_ScorerNeverThrows ==
    scoreResult.status # "unset" =>
        /\ scoreResult.status = "returned"
        /\ Len(scoreResult.files) = Len(scoreArgs.files)

-----------------------------------------------------------------------------
(* Properties of the request payload *)

NamesOf(entries) == { entries[k].name : k \in 1..Len(entries) }

(* C19: the request of a batch carries every file of the batch, and every
   path appended to context.processedFiles is the path of a file that was
   in the request *)
C19_PayloadIsBatch ==
    /\ paypc \in {"sent", "pushed", "failed"} => NamesOf(payload) = NamesOf(batchFiles)
    /\ \A k \in 1..Len(pushedPaths) : pushedPaths[k] \in NamesOf(payload)

(* C34: the entries of the request are files of the call in an order of
   descending relevance, every file left out is no more relevant than any
   file kept, one file at least is kept, and the entries serialize to at
   most 100000 characters unless a single one is left *)
C34_PayloadIsRelevancePrefix ==
    paypc \in {"sent", "pushed", "failed"} =>
        /\ \A k \in 1..(Len(payload) - 1) :
              payload[k].relevance >= payload[k + 1].relevance
        /\ \A k \in 1..Len(payload) :
              /\ \E j \in 1..Len(batchFiles) :
                    /\ batchFiles[j].name = payload[k].name
                    /\ batchFiles[j].relevance = payload[k].relevance
              /\ \A j \in 1..Len(payload) : payload[j].name = payload[k].name => j = k
        /\ \A j \in 1..Len(batchFiles) :
              batchFiles[j].name \notin NamesOf(payload) =>
                  \A k \in 1..Len(payload) : batchFiles[j].relevance <= payload[k].relevance
        /\ Len(batchFiles) >= 1 => Len(payload) >= 1
        /\ JsonArraySize(payload) <= 100000 \/ Len(payload) = 1

(* a request went out for 7 files given in an order that is not the order
   of relevance, without the least relevant of them *)
C34_Witness ==
    /\ paypc = "sent"
    /\ Len(batchFiles) = 7
    /\ batchFiles[1].relevance < batchFiles[2].relevance
    /\ Len(payload) < 7
    /\ payload[1].relevance > payload[Len(payload)].relevance

====
